---- MODULE Spec2Model ----
(***************************************************************************)
(* Build orchestration engine of the workspace provisioner:                *)
(*   - repository acquisition        (pkg/git/service.go)                  *)
(*   - builder factory and detection (pkg/builder/devcontainer.go)         *)
(*   - devcontainer build pipeline   (pkg/builder/devcontainer.go)         *)
(*   - in-container acquisition      (unnamed/part_000)                    *)
(*                                                                         *)
(* Each component has a specification of its own over the same variables;  *)
(* the variables of the other components stay at their idle values:        *)
(*   SpecGit      CloneRepository, CloneRepositoryCmd, the in-container    *)
(*                clone command                                            *)
(*   SpecFactory  BuilderFactory.Create and CheckExistingBuild             *)
(*   SpecBuild    DevcontainerBuilder.Build, stage by stage, Publish and   *)
(*                CleanUp                                                  *)
(*   SpecOwnership  UPDATE_UID_GID_SCRIPT on an account database           *)
(*   SpecClone    DockerClient.cloneProjectRepository, step by step, with  *)
(*                the log-relay goroutine it starts                        *)
(*   SpecCloneLive  SpecClone under a fair scheduler, for liveness         *)
(*   SpecRelay    the two log relays side by side: SpecClone's steps with  *)
(*                startDocker and the goroutine it starts                  *)
(*                                                                         *)
(* Go strings that the code takes apart or puts together are sequences of  *)
(* tokens: "" is << >>, a literal "git" is <<"git">>, concatenation is \o. *)
(* No token is a prefix of another at the character level, so prefix       *)
(* tests on token sequences agree with the prefix tests of the code.       *)
(***************************************************************************)
EXTENDS Integers, Sequences, FiniteSets, TLC

VARIABLES
    project,      \* git: workspace.Project.Repository of the call (Url, Branch, Sha)
    auth,         \* git: *http.BasicAuth / *GitProviderConfig of the call
    gitCall       \* git: the last acquisition call and the command it rendered; the
                  \* clone options the last CloneRepository used and the hashes it
                  \* asked the worktree to check out

VARIABLES
    fproject,     \* factory: the workspace.Project of the last call, as the call left it
    repoFiles,    \* factory: the devcontainer files the repository holds
    workTree,     \* factory: the directory <basePath>/<hash>/project on disk
    buildRecord,  \* factory: the file <serverConfigFolder>/builds/<hash>/build.json
    builders,     \* factory: the builder instances Create has returned
    nextId,       \* factory: how many build IDs have been generated
    factCall,     \* factory: the last factory call, its steps and what it returned
    missed        \* factory: the callers CheckExistingBuild has answered with a
                  \* cache miss

VARIABLES
    bpc,            \* build: the stage of DevcontainerBuilder.Build() that runs next
    stages,         \* build: the stages Build() has run, each with the error it returned
    container,      \* build: the builder container named by the build ID, on the host
    hostDir,        \* build: whether /tmp/<buildId>/etc/docker exists
    nestedTags,     \* build: the image references held by the nested daemon
    toolOutput,     \* build: the lines the build tool's exec wrote to the attached stream
    toolExec,       \* build: the exec as ContainerExecInspect reports it
    buildOutcome,   \* build: the BuildOutcome decoded from the stream
    buildImageName, \* build: DevcontainerBuilder.buildImageName
    imageLabels,    \* build: Config.Labels["devcontainer.metadata"] of the built image
    remoteUser,     \* build: what getRemoteUser returned
    buildRet,       \* build: what Build() returned
    cleanUpRet,     \* build: what the last CleanUp() returned
    publishRet,     \* build: what the last Publish() returned and what it pushed
    dockerdRelay    \* build: where the goroutine of startDocker stands

VARIABLES
    dockerCalls   \* the container-runtime API calls issued so far, oldest first

VARIABLES
    passwd,       \* ownership: /etc/passwd of the container, as a set of entries
    group,        \* ownership: /etc/group of the container, as a set of entries
    ownCall       \* ownership: the last run of UPDATE_UID_GID_SCRIPT: its environment,
                  \* the database it found, what it printed and what it chowned

VARIABLES
    cpc,            \* clone: where cloneProjectRepository stands
    rpc,            \* clone: where its log-relay goroutine stands
    cerr,           \* clone: the variable err, shared by the function and the goroutine
    relayTries,     \* clone: how many times the goroutine has called GetContainerLogs,
                    \* counted up to MaxRelayTries
    cloneContainer, \* clone: the git-clone-<workspace>-<project> container
    cloneUser,      \* clone: sshClient, newUid, newGid and containerUser
    callResults,    \* clone: the calls the function has made, each with what it returned
    cloneRet        \* clone: what cloneProjectRepository returned

gitVars == <<project, auth, gitCall>>
factVars == <<fproject, repoFiles, workTree, buildRecord, builders, nextId, factCall,
              missed>>
buildVars == <<bpc, stages, container, hostDir, nestedTags, toolOutput, toolExec, buildOutcome,
               buildImageName, imageLabels, remoteUser, buildRet, cleanUpRet, publishRet,
               dockerdRelay>>
runtimeVars == <<dockerCalls>>
ownVars == <<passwd, group, ownCall>>
cloneVars == <<cpc, rpc, cerr, relayTries, cloneContainer, cloneUser, callResults, cloneRet>>

vars == <<gitVars, factVars, buildVars, runtimeVars, ownVars, cloneVars>>

----------------------------------------------------------------------------
(* Bounds *)

\* longest repository URL body (tokens after the scheme)
MaxUrlLen == 2

\* how many build IDs the factory generates in one behaviour
MaxBuilds == 2

\* longest build-tool output stream (lines)
MaxLines == 2

\* longest devcontainer.metadata array
MaxMetadata == 2

\* how many calls of GetContainerLogs by the log relay of cloneProjectRepository
\* are counted and logged
MaxRelayTries == 2

----------------------------------------------------------------------------
(* Strings *)

S(tok) == <<tok>>

HasPrefix(s, prefix) ==
    /\ Len(s) >= Len(prefix)
    /\ SubSeq(s, 1, Len(prefix)) = prefix

TrimPrefix(s, prefix) ==
    IF HasPrefix(s, prefix) THEN SubSeq(s, Len(prefix) + 1, Len(s)) ELSE s

RECURSIVE SeqsUpTo(_, _)
SeqsUpTo(T, n) ==
    IF n = 0 THEN {<< >>}
    ELSE LET shorter == SeqsUpTo(T, n - 1)
         IN  shorter \cup {Append(s, t) : s \in shorter, t \in T}

----------------------------------------------------------------------------
(* Builder factory: pkg/builder/devcontainer.go *)

\* BuilderFactory.basePath and daytonaServerConfigFolder, and the project's config hash
BasePath == "/base"
ServerConfigFolder == "/server"
ConfigHash == "hash"

\* filepath.Join(f.basePath, hash, "project")
ProjectDirOf(hash) == <<BasePath, hash, "project">>
\* filepath.Join(f.daytonaServerConfigFolder, "builds", hash, "build.json")
BuildRecordPath(hash) == <<ServerConfigFolder, "builds", hash, "build.json">>

DevcontainerDirForm == ".devcontainer/devcontainer.json"
DevcontainerFlatForm == ".devcontainer.json"

\* what os.Stat finds at a path: nothing (ENOENT), a file, or another error
\* (ENOTDIR when .devcontainer is a regular file, ELOOP, EACCES)
StatResults == {"absent", "file", "staterr"}

\* a directory tree, as far as detection reads it
Trees == [present : {TRUE}, dirForm : StatResults, flatForm : StatResults]
NoTree == [present |-> FALSE, dirForm |-> "absent", flatForm |-> "absent"]

Stat(tree, form) == IF tree.present THEN tree[form] ELSE "absent"

\* fileExists: (false, nil) when the file does not exist, (false, err) on any other
\* stat error, (true, nil) otherwise
fileExists(st) ==
    IF st = "absent" THEN [exists |-> FALSE, err |-> FALSE]
    ELSE IF st = "staterr" THEN [exists |-> FALSE, err |-> TRUE]
    ELSE [exists |-> TRUE, err |-> FALSE]

\* detectDevcontainerConfigFilePath: the path it returns (its error is always nil)
detectDevcontainerConfigFilePath(tree) ==
    LET first == fileExists(Stat(tree, "dirForm"))
        second == fileExists(Stat(tree, "flatForm"))
    IN  IF first.err
        THEN IF second.err THEN DevcontainerFlatForm
             ELSE IF second.exists THEN DevcontainerFlatForm ELSE ""
        ELSE IF first.exists THEN DevcontainerDirForm ELSE ""

\* workspace.Project.Build: a nil pointer, the empty ProjectBuild{}, or a descriptor
\* that names a devcontainer file or a pre-built image
BuildDescriptors == {"nil", "unset", "devcontainer", "image"}

\* BuildResult as persisted in build.json
BuildResults ==
    [User : {"vscode"}, ImageName : {"registry/p-old:latest"},
     ProjectVolumePath : {ProjectDirOf(ConfigHash)}]
NoResult == [User |-> "", ImageName |-> "", ProjectVolumePath |-> << >>]

\* build.json: absent, a valid record, bytes that do not decode, a path os.Stat
\* fails on, a file os.Open fails on
BuildRecords ==
    {[kind |-> k, content |-> NoResult] : k \in {"absent", "corrupt", "staterr", "openerr"}}
        \cup {[kind |-> "valid", content |-> r] : r \in BuildResults}

NoBuilder == 0

NoCall ==
    [op |-> "none", steps |-> << >>, builderId |-> NoBuilder, err |-> "nil",
     detected |-> "-", result |-> NoResult, found |-> FALSE]

\* the callers of the factory
Callers == {"c1", "c2"}

FactoryIdle ==
    /\ fproject = [Hash |-> ConfigHash, Build |-> "unset", DevContainerFilePath |-> ""]
    /\ workTree = NoTree
    /\ buildRecord = [kind |-> "absent", content |-> NoResult]
    /\ repoFiles = NoTree
    /\ builders = {}
    /\ nextId = 0
    /\ factCall = NoCall
    /\ missed = {}

RuntimeIdle == dockerCalls = << >>

\* the script has not run
NoOwnCall ==
    [ran |-> FALSE, REMOTE_USER |-> "", NEW_UID |-> 0, NEW_GID |-> 0,
     passwd |-> {}, group |-> {}, out |-> << >>, chown |-> << >>]

OwnershipIdle ==
    /\ passwd = {}
    /\ group = {}
    /\ ownCall = NoOwnCall

\* a position of cloneProjectRepository: the call it is at, and whether it is about
\* to make the call, to test err, or to return err
At(call, phase) == [at |-> call, phase |-> phase]

NoCloneUser == [ssh |-> FALSE, newUid |-> 0, newGid |-> 0]
NoCloneReturn == [returned |-> FALSE, err |-> "nil"]

CloneIdle ==
    /\ cpc = At("idle", "-")
    /\ rpc = "none"
    /\ cerr = "nil"
    /\ relayTries = 0
    /\ cloneContainer = "absent"
    /\ cloneUser = NoCloneUser
    /\ callResults = << >>
    /\ cloneRet = NoCloneReturn

----------------------------------------------------------------------------
(* Devcontainer builder: pkg/builder/devcontainer.go, data *)

\* the builder instance of the pipeline: DevcontainerBuilderConfig
BuildId == "b1"
LocalContainerRegistryServer == "localhost:5000"

\* BuildOutcome, and its zero value
NoOutcome == [Outcome |-> "", ImageName |-> << >>]

\* types.ContainerExecInspect: Running, ExitCode (0 while the process runs)
ExecStates ==
    {[Running |-> TRUE, ExitCode |-> 0],
     [Running |-> FALSE, ExitCode |-> 0],
     [Running |-> FALSE, ExitCode |-> 1]}

NoLabels == [present |-> FALSE, kind |-> "array", elems |-> << >>]
NoUser == [user |-> "", err |-> "nil"]
NoReturn == [returned |-> FALSE, User |-> "", ImageName |-> << >>,
             ProjectVolumePath |-> << >>, err |-> "nil"]

\* CleanUp() has not been called
NotCalled == "-"

\* Publish() has not been called
NoPublish == [err |-> NotCalled, pushed |-> << >>]

BuildIdle ==
    /\ bpc = "idle"
    /\ stages = << >>
    /\ container = "absent"
    /\ hostDir = FALSE
    /\ nestedTags = {}
    /\ toolOutput = << >>
    /\ toolExec = [Running |-> FALSE, ExitCode |-> 0]
    /\ buildOutcome = NoOutcome
    /\ buildImageName = << >>
    /\ imageLabels = NoLabels
    /\ remoteUser = NoUser
    /\ buildRet = NoReturn
    /\ cleanUpRet = NotCalled
    /\ publishRet = NoPublish
    /\ dockerdRelay = "none"

----------------------------------------------------------------------------
(* Repository acquisition: pkg/git/service.go *)

\* Service.ProjectDir of the acquisition
ProjectDir == S("/projectdir")

\* a *string: nil, or a pointer to a string
NilString == [isNil |-> TRUE, val |-> << >>]
Ptr(s) == [isNil |-> FALSE, val |-> s]

\* *http.BasicAuth: nil, or Username and Password
NilAuth == [isNil |-> TRUE, Username |-> << >>, Password |-> << >>]
BasicAuth(u, p) == [isNil |-> FALSE, Username |-> u, Password |-> p]

BranchNames == {<< >>, S("main"), S("abc123")}
ShaValues == {<< >>, S("main"), S("abc123")}
HexTokens == {"abc123"}

SchemeHttps == S("https://")
SchemeHttp == S("http://")
UrlBodyTokens == {"github.com", "/org/repo"}
UrlBodies == SeqsUpTo(UrlBodyTokens, MaxUrlLen) \ {<< >>}
\* repository URLs: an optional scheme, then host and path
RepoUrls == {scheme \o body : scheme \in {<< >>, SchemeHttps, SchemeHttp}, body \in UrlBodies}

Repositories ==
    [Url : RepoUrls, Branch : {NilString} \cup {Ptr(b) : b \in BranchNames}, Sha : ShaValues]

Auths == {NilAuth} \cup {BasicAuth(u, p) : u \in {<< >>, S("user")}, p \in {S("token")}}

\* a clone that takes the branch whenever one is set
shouldCloneBranchAlias(repo) ==
    ~repo.Branch.isNil /\ repo.Branch.val # << >>

shouldCloneBranch(repo) ==
    IF repo.Branch.isNil \/ repo.Branch.val = << >> THEN FALSE
    ELSE IF repo.Sha = << >> THEN TRUE
    ELSE repo.Branch.val # repo.Sha

\* checkouts that do not ask for the alias sentinel
shouldCheckoutShaAnyBranch(repo) ==
    repo.Sha # << >> /\ ~repo.Branch.isNil /\ repo.Branch.val # << >>

shouldCheckoutShaNoBranch(repo) ==
    repo.Sha # << >>

shouldCheckoutSha(repo) ==
    IF repo.Sha = << >> THEN FALSE
    ELSE IF repo.Branch.isNil \/ repo.Branch.val = << >> THEN FALSE
    ELSE repo.Branch.val = repo.Sha

\* a credential URL that keeps the scheme of the repository URL
CredentialUrlKeepScheme(url, user, password) ==
    SchemeHttps \o user \o S(":") \o password \o S("@") \o url

\* fmt.Sprintf("https://%s:%s@%s", user, password, repoUrl) after the two TrimPrefix
CredentialUrl(url, user, password) ==
    LET repoUrl == TrimPrefix(TrimPrefix(url, SchemeHttps), SchemeHttp)
    IN  SchemeHttps \o user \o S(":") \o password \o S("@") \o repoUrl

\* a rendering that never appends the checkout
CloneRepositoryCmdNoCheckout(repo, a) ==
    LET c0 == <<S("git"), S("clone"), S("--single-branch")>>
        c1 == IF shouldCloneBranch(repo)
              THEN c0 \o <<S("--branch"), repo.Branch.val>>
              ELSE c0
        c2 == IF ~a.isNil
              THEN Append(c1, CredentialUrl(repo.Url, a.Username, a.Password))
              ELSE Append(c1, repo.Url)
    IN  Append(c2, ProjectDir)

\* the []string CloneRepositoryCmd returns; every word is a string
CloneRepositoryCmd(repo, a) ==
    LET c0 == <<S("git"), S("clone"), S("--single-branch")>>
        c1 == IF shouldCloneBranch(repo)
              THEN c0 \o <<S("--branch"), repo.Branch.val>>
              ELSE c0
        c2 == IF ~a.isNil
              THEN Append(c1, CredentialUrl(repo.Url, a.Username, a.Password))
              ELSE Append(c1, repo.Url)
        c3 == Append(c2, ProjectDir)
    IN  IF shouldCheckoutSha(repo)
        THEN c3 \o <<S("&&"), S("cd"), ProjectDir>>
                \o <<S("&&"), S("git"), S("checkout"), repo.Sha>>
        ELSE c3

\* plumbing.NewHash: the hash a hex string spells, the zero hash for anything else
ZeroHash == S("0000")
NewHash(sha) ==
    IF sha # << >> /\ \A i \in 1..Len(sha) : sha[i] \in HexTokens THEN sha ELSE ZeroHash

\* git.CloneOptions built by CloneRepository
CloneOptions(repo, a) ==
    [URL           |-> repo.Url,
     SingleBranch  |-> TRUE,
     Auth          |-> a,
     ReferenceName |-> IF shouldCloneBranch(repo)
                       THEN S("refs/heads/") \o repo.Branch.val
                       ELSE << >>]

NoOptions == [URL |-> << >>, SingleBranch |-> FALSE, Auth |-> NilAuth, ReferenceName |-> << >>]

\* the in-container clone command of cloneProjectRepository
WorkdirTarget == S("/workdir/ws-proj")
cloneProjectRepositoryCmd(repo, gpc) ==
    LET cloneUrl == IF ~gpc.isNil
                    THEN CredentialUrl(repo.Url, gpc.Username, gpc.Password)
                    ELSE repo.Url
    IN  <<S("git"), S("clone"), cloneUrl, WorkdirTarget>>

GitErrors == {"PlainClone", "PlainOpen", "Worktree", "Checkout"}

InitGit ==
    /\ project \in Repositories
    /\ auth \in Auths
    /\ gitCall = [op |-> "none", cmd |-> << >>, options |-> NoOptions,
                  cloned |-> FALSE, checkout |-> << >>, err |-> "nil"]
    /\ FactoryIdle
    /\ BuildIdle
    /\ RuntimeIdle
    /\ OwnershipIdle
    /\ CloneIdle

\* Service.CloneRepositoryCmd: pure, renders the command; what an earlier
\* CloneRepository did stays as it is
CloneRepositoryCmdCall ==
    /\ gitCall' = [gitCall EXCEPT !.op = "CloneRepositoryCmd",
                                  !.cmd = CloneRepositoryCmd(project, auth)]
    /\ UNCHANGED <<project, auth, factVars, buildVars, runtimeVars, ownVars, cloneVars>>

\* Service.CloneRepository: PlainClone, then the checkout when shouldCheckoutSha;
\* the first failing library call (fail) ends it with that error
CloneRepository ==
    \E fail \in GitErrors \cup {"nil"} :
        LET opts == CloneOptions(project, auth)
            wantCheckout == shouldCheckoutSha(project)
            err == IF fail = "PlainClone" THEN fail
                   ELSE IF wantCheckout THEN fail
                   ELSE "nil"
        IN  /\ gitCall' = [op |-> "CloneRepository",
                           cmd |-> << >>,
                           options |-> opts,
                           cloned |-> (err # "PlainClone"),
                           checkout |-> IF wantCheckout /\ err \in {"nil", "Checkout"}
                                        THEN <<NewHash(project.Sha)>>
                                        ELSE << >>,
                           err |-> err]
            /\ UNCHANGED <<project, auth, factVars, buildVars, runtimeVars, ownVars, cloneVars>>

\* the command rendered by DockerClient.cloneProjectRepository
CloneProjectRepositoryCmdCall ==
    /\ gitCall' = [op |-> "cloneProjectRepository",
                   cmd |-> cloneProjectRepositoryCmd(project, auth),
                   options |-> NoOptions,
                   cloned |-> FALSE, checkout |-> << >>, err |-> "nil"]
    /\ UNCHANGED <<project, auth, factVars, buildVars, runtimeVars, ownVars, cloneVars>>

NextGit ==
    \/ CloneRepositoryCmdCall
    \/ CloneRepository
    \/ CloneProjectRepositoryCmdCall

SpecGit == InitGit /\ [][NextGit]_vars

----------------------------------------------------------------------------
(* Builder factory: operations *)

InitFactory ==
    /\ fproject = [Hash |-> ConfigHash, Build |-> "unset", DevContainerFilePath |-> ""]
    /\ repoFiles \in Trees
    /\ workTree \in {NoTree, [present |-> TRUE, dirForm |-> "file", flatForm |-> "absent"]}
    /\ buildRecord \in BuildRecords
    /\ builders = {}
    /\ nextId = 0
    /\ factCall = NoCall
    /\ missed = {}
    /\ BuildIdle
    /\ RuntimeIdle
    /\ OwnershipIdle
    /\ CloneIdle
    /\ project = [Url |-> S("github.com"), Branch |-> NilString, Sha |-> << >>]
    /\ auth = NilAuth
    /\ gitCall = [op |-> "none", cmd |-> << >>, options |-> NoOptions,
                  cloned |-> FALSE, checkout |-> << >>, err |-> "nil"]

\* what a builder instance is bound to
BuilderInstance(id, hash, projectDir, path) ==
    [id |-> id, hash |-> hash, projectVolumePath |-> projectDir,
     DevContainerFilePath |-> path]

\* Create's two "return nil, nil" exits: the descriptor is nil or not the empty
\* ProjectBuild{}, or detection found no devcontainer file
CreateReturnsNil(build, detected) ==
    \/ build = "nil"
    \/ build # "unset"
    \/ detected = ""

\* a Create that looks for the devcontainer file whether or not the clone succeeded
DetectionRunsUncloned(cloned, build) == ~(build = "nil" \/ build # "unset")

\* Create reaches detectDevcontainerConfigFilePath: CloneRepository returned no
\* error, and p.Build is the empty ProjectBuild{}
DetectionRuns(cloned, build) == cloned /\ ~(build = "nil" \/ build # "unset")

\* BuilderFactory.Create(p, gpc).  build is p.Build; the failures are those of
\* GetConfigHash, os.RemoveAll, CloneRepository and GetAvailableEphemeralPort.
Create ==
    /\ nextId < MaxBuilds
    /\ \E build \in BuildDescriptors, failure \in {"nil", "GetConfigHash", "RemoveAll",
                                                   "CloneRepository", "GetAvailableEphemeralPort"},
          partial \in BOOLEAN :
        LET buildId == nextId + 1
            projectDir == ProjectDirOf(ConfigHash)
            purged == failure \notin {"GetConfigHash", "RemoveAll"}
            cloneRan == purged
            cloned == cloneRan /\ failure # "CloneRepository"
            \* a failed clone leaves nothing or a partial tree behind
            treeAfter == IF ~purged THEN workTree
                         ELSE IF cloned THEN [repoFiles EXCEPT !.present = TRUE]
                         ELSE IF partial THEN [NoTree EXCEPT !.present = TRUE]
                         ELSE NoTree
            detectRan == DetectionRuns(cloned, build)
            detected == IF detectRan THEN detectDevcontainerConfigFilePath(treeAfter) ELSE "-"
            returnsNil == cloned /\ CreateReturnsNil(build, detected)
            portRan == cloned /\ ~returnsNil
            err == IF failure = "GetConfigHash" THEN failure
                   ELSE IF failure = "RemoveAll" THEN failure
                   ELSE IF failure = "CloneRepository" THEN failure
                   ELSE IF portRan /\ failure = "GetAvailableEphemeralPort" THEN failure
                   ELSE "nil"
            made == portRan /\ err = "nil"
            steps == <<"GenerateRandomID", "GetConfigHash">>
                       \o (IF failure # "GetConfigHash" THEN <<"RemoveAll">> ELSE << >>)
                       \o (IF cloneRan THEN <<"CloneRepository">> ELSE << >>)
                       \o (IF detectRan THEN <<"detectDevcontainerConfigFilePath">> ELSE << >>)
                       \o (IF portRan THEN <<"GetAvailableEphemeralPort">> ELSE << >>)
        IN  /\ nextId' = buildId
            /\ workTree' = treeAfter
            \* buildConfig aliases p.Build: a detected path is written into the
            \* caller's descriptor
            /\ fproject' = [Hash |-> ConfigHash,
                            Build |-> IF detectRan /\ detected # "" THEN "devcontainer" ELSE build,
                            DevContainerFilePath |->
                                IF detectRan /\ detected # "" THEN detected
                                ELSE IF build = "devcontainer" THEN DevcontainerDirForm
                                ELSE ""]
            /\ builders' = IF made
                           THEN builders \cup {BuilderInstance(buildId, ConfigHash,
                                                               projectDir, detected)}
                           ELSE builders
            /\ factCall' = [op |-> "Create", steps |-> steps,
                            builderId |-> IF made THEN buildId ELSE NoBuilder,
                            err |-> err, detected |-> detected,
                            result |-> NoResult, found |-> FALSE]
            /\ UNCHANGED <<repoFiles, buildRecord, missed, gitVars, buildVars, runtimeVars, ownVars, cloneVars>>

\* CheckExistingBuild that takes every os.Stat failure for "no record"
CheckExistingBuildAnyStatErrIsMiss(record, hashFails) ==
    IF hashFails THEN [found |-> FALSE, result |-> NoResult, err |-> "GetConfigHash"]
    ELSE IF record.kind \in {"absent", "staterr"}
         THEN [found |-> FALSE, result |-> NoResult, err |-> "nil"]
    ELSE IF record.kind = "openerr" THEN [found |-> FALSE, result |-> NoResult, err |-> "Open"]
    ELSE IF record.kind = "corrupt" THEN [found |-> FALSE, result |-> NoResult, err |-> "Decode"]
    ELSE [found |-> TRUE, result |-> record.content, err |-> "nil"]

\* a CheckExistingBuild that turns a caller away while no record is persisted
CheckExistingBuildLocked(record, hashFails) ==
    IF hashFails THEN [found |-> FALSE, result |-> NoResult, err |-> "GetConfigHash"]
    ELSE IF record.kind = "absent" THEN [found |-> FALSE, result |-> NoResult, err |-> "Locked"]
    ELSE IF record.kind = "staterr" THEN [found |-> FALSE, result |-> NoResult, err |-> "Stat"]
    ELSE IF record.kind = "openerr" THEN [found |-> FALSE, result |-> NoResult, err |-> "Open"]
    ELSE IF record.kind = "corrupt" THEN [found |-> FALSE, result |-> NoResult, err |-> "Decode"]
    ELSE [found |-> TRUE, result |-> record.content, err |-> "nil"]

\* BuilderFactory.CheckExistingBuild(p): stat, open and decode build.json
CheckExistingBuildResult(record, hashFails) ==
    IF hashFails THEN [found |-> FALSE, result |-> NoResult, err |-> "GetConfigHash"]
    ELSE IF record.kind = "absent" THEN [found |-> FALSE, result |-> NoResult, err |-> "nil"]
    ELSE IF record.kind = "staterr" THEN [found |-> FALSE, result |-> NoResult, err |-> "Stat"]
    ELSE IF record.kind = "openerr" THEN [found |-> FALSE, result |-> NoResult, err |-> "Open"]
    ELSE IF record.kind = "corrupt" THEN [found |-> FALSE, result |-> NoResult, err |-> "Decode"]
    ELSE [found |-> TRUE, result |-> record.content, err |-> "nil"]

CheckExistingBuild ==
    \E build \in BuildDescriptors, hashFails \in BOOLEAN, caller \in Callers :
        LET r == CheckExistingBuildResult(buildRecord, hashFails)
        IN  /\ factCall' = [op |-> "CheckExistingBuild",
                            steps |-> IF hashFails THEN <<"GetConfigHash">>
                                      ELSE <<"GetConfigHash", "Stat">>
                                             \o (IF buildRecord.kind \in {"absent", "staterr"}
                                                 THEN << >> ELSE <<"Open">>)
                                             \o (IF buildRecord.kind \in {"valid", "corrupt"}
                                                 THEN <<"Decode">> ELSE << >>),
                            builderId |-> NoBuilder, err |-> r.err, detected |-> "-",
                            result |-> r.result, found |-> r.found]
            /\ fproject' = [Hash |-> ConfigHash, Build |-> build,
                            DevContainerFilePath |->
                                IF build = "devcontainer" THEN DevcontainerDirForm ELSE ""]
            /\ missed' = IF r.err = "nil" /\ ~r.found THEN missed \cup {caller} ELSE missed
            /\ UNCHANGED <<repoFiles, workTree, buildRecord, builders, nextId,
                           gitVars, buildVars, runtimeVars, ownVars, cloneVars>>

NextFactory ==
    \/ Create
    \/ CheckExistingBuild

SpecFactory == InitFactory /\ [][NextFactory]_vars

----------------------------------------------------------------------------
(* Devcontainer builder: build-tool output and image metadata *)

\* Tokens of an output line.  A line is a sequence of them; JSON punctuation other
\* than the braces is part of the member tokens.
LBrace == "{"
RBrace == "}"
Text == "text"
OutcomeSuccess == "\"outcome\":\"success\""
OutcomeError == "\"outcome\":\"error\""
ImageNameOne == "\"imageName\":[\"img:tag\"]"
ImageNameNone == "\"imageName\":[]"
BadMember == "\"outcome\":"

OutcomeMembers == {OutcomeSuccess, OutcomeError}
Members == OutcomeMembers \cup {ImageNameOne, ImageNameNone}

\* the image the build tool reports
ToolImage == "img:tag"

OutputLines ==
    {<<Text>>,
     <<Text, LBrace, OutcomeSuccess, ImageNameOne, RBrace, Text>>,
     <<LBrace, OutcomeError, RBrace>>,
     <<LBrace, OutcomeSuccess, RBrace>>,
     <<LBrace, OutcomeSuccess, ImageNameNone, RBrace>>,
     <<LBrace, BadMember, RBrace>>,
     <<LBrace, ImageNameOne, OutcomeSuccess, RBrace>>,
     <<LBrace, RBrace, Text, LBrace, OutcomeSuccess, ImageNameOne, RBrace>>,
     <<Text, LBrace, OutcomeSuccess, ImageNameOne>>}

OutputStreams == SeqsUpTo(OutputLines, MaxLines)

\* strings.Contains(line, `{"outcome"`)
ContainsOutcomeMarker(line) ==
    \E i \in 1..(Len(line) - 1) :
        line[i] = LBrace /\ line[i + 1] \in OutcomeMembers \cup {BadMember}

\* strings.Index / strings.LastIndex of a one-token string; -1 when it does not occur
Index(line, tok) ==
    IF \E i \in 1..Len(line) : line[i] = tok
    THEN (CHOOSE i \in 1..Len(line) : line[i] = tok /\ \A j \in 1..(i - 1) : line[j] # tok) - 1
    ELSE -1

LastIndex(line, tok) ==
    IF \E i \in 1..Len(line) : line[i] = tok
    THEN (CHOOSE i \in 1..Len(line) :
              line[i] = tok /\ \A j \in (i + 1)..Len(line) : line[j] # tok) - 1
    ELSE -1

\* a scanner loop that decodes the whole line
OutcomeTextWholeLine(line) == line

\* lastLine[start : end+1] when both braces are found and start < end, else the line
OutcomeText(line) ==
    LET start == Index(line, LBrace)
        end == LastIndex(line, RBrace)
    IN  IF start # -1 /\ end # -1 /\ start < end
        THEN SubSeq(line, start + 1, end + 1)
        ELSE line

\* json.Unmarshal into a BuildOutcome: a text that is not one JSON object is an
\* error and leaves the value alone; a member sets its field, later members win,
\* fields without a member keep their value
IsJsonObject(text) ==
    /\ Len(text) >= 2
    /\ text[1] = LBrace
    /\ text[Len(text)] = RBrace
    /\ \A i \in 2..(Len(text) - 1) : text[i] \in Members

ApplyMember(outcome, member) ==
    IF member = OutcomeSuccess THEN [outcome EXCEPT !.Outcome = "success"]
    ELSE IF member = OutcomeError THEN [outcome EXCEPT !.Outcome = "error"]
    ELSE IF member = ImageNameOne THEN [outcome EXCEPT !.ImageName = <<ToolImage>>]
    ELSE [outcome EXCEPT !.ImageName = << >>]

RECURSIVE ApplyMembers(_, _, _)
ApplyMembers(outcome, text, i) ==
    IF i >= Len(text) THEN outcome
    ELSE ApplyMembers(ApplyMember(outcome, text[i]), text, i + 1)

Unmarshal(text, outcome) ==
    IF IsJsonObject(text)
    THEN [err |-> FALSE, value |-> ApplyMembers(outcome, text, 2)]
    ELSE [err |-> TRUE, value |-> outcome]

\* the scanner loop of buildDevcontainer over the lines from the i-th on: the
\* outcome decoded so far, whether a decode error ended the loop, and how many
\* lines were read (each line read is written to the project log first)
RECURSIVE ScanOutput(_, _, _)
ScanOutput(lines, i, outcome) ==
    IF i > Len(lines) THEN [outcome |-> outcome, decodeErr |-> FALSE, read |-> Len(lines)]
    ELSE IF ContainsOutcomeMarker(lines[i])
         THEN LET d == Unmarshal(OutcomeText(lines[i]), outcome)
              IN  IF d.err
                  THEN [outcome |-> d.value, decodeErr |-> TRUE, read |-> i]
                  ELSE ScanOutput(lines, i + 1, d.value)
         ELSE ScanOutput(lines, i + 1, outcome)

\* buildOutcome.Outcome != "success"
OutcomeFails(outcome) == outcome.Outcome # "success"

\* a build that does not look at the exit code
ExitCodeFailsNever(inspect) == FALSE

\* execInspect.ExitCode != 0
ExitCodeFails(inspect) == inspect.ExitCode # 0

\* a tag that does not name the build
ImageTagNameShared == <<LocalContainerRegistryServer, "/p-", "project", ":", "latest">>

\* fmt.Sprintf("%s:%s", b.localContainerRegistryServer+"/p-"+b.buildId, "latest")
ImageTagName == <<LocalContainerRegistryServer, "/p-", BuildId, ":", "latest">>

\* filepath.Join("/tmp", b.buildId, "docker", "docker.sock")
getLocalDockerSocket == <<"/tmp", BuildId, "docker", "docker.sock">>

\* One element of the devcontainer.metadata array after json.Unmarshal into
\* []interface{}: a JSON object whose remoteUser member is absent, null, a string
\* or a number, or a value that is no object.
MetadataElems ==
    {[object |-> TRUE, remoteUser |-> [type |-> "absent", val |-> ""]],
     [object |-> TRUE, remoteUser |-> [type |-> "null", val |-> ""]],
     [object |-> TRUE, remoteUser |-> [type |-> "string", val |-> ""]],
     [object |-> TRUE, remoteUser |-> [type |-> "string", val |-> "vscode"]],
     [object |-> TRUE, remoteUser |-> [type |-> "string", val |-> "node"]],
     [object |-> TRUE, remoteUser |-> [type |-> "number", val |-> "1000"]],
     [object |-> FALSE, remoteUser |-> [type |-> "absent", val |-> ""]]}

\* Config.Labels with or without the devcontainer.metadata key; its value is a JSON
\* array, another JSON value, or no JSON at all
ImageLabels ==
    {NoLabels}
        \cup {[present |-> TRUE, kind |-> k, elems |-> << >>] : k \in {"invalid", "object"}}
        \cup {[present |-> TRUE, kind |-> "array", elems |-> e] :
                 e \in SeqsUpTo(MetadataElems, MaxMetadata)}

\* metadataMap["remoteUser"] != nil
HasRemoteUser(elem) == elem.remoteUser.type \notin {"absent", "null"}

\* the loop of getRemoteUser over the elements from the i-th on; the two type
\* assertions panic on an element that is no object and on a remoteUser that is
\* no string
RECURSIVE FindRemoteUser(_, _)
FindRemoteUser(elems, i) ==
    IF i > Len(elems) THEN [user |-> "", err |-> "remoteUser not found in metadata"]
    ELSE IF ~elems[i].object THEN [user |-> "", err |-> "panic"]
    ELSE IF HasRemoteUser(elems[i])
         THEN IF elems[i].remoteUser.type = "string"
              THEN [user |-> elems[i].remoteUser.val, err |-> "nil"]
              ELSE [user |-> "", err |-> "panic"]
         ELSE FindRemoteUser(elems, i + 1)

\* getRemoteUser from the image's labels on
RemoteUserOf(labels) ==
    IF ~labels.present THEN [user |-> "", err |-> "devcontainer.metadata label not found"]
    ELSE IF labels.kind # "array" THEN [user |-> "", err |-> "Unmarshal"]
    ELSE FindRemoteUser(labels.elems, 1)

\* client.FromEnv: the daemon of the host, and d.apiClient of the clone provider,
\* a client of the same daemon
FromEnv == <<"unix://", "/var/run", "docker.sock">>
apiClient == FromEnv

\* a builder client that talks to the daemon of the host
getBuilderDockerClientOfHost == FromEnv

\* client.WithHost(fmt.Sprintf("unix://%s", b.getLocalDockerSocket()))
getBuilderDockerClient == <<"unix://">> \o getLocalDockerSocket

\* filepath.Dir
Dir(path) == SubSeq(path, 1, Len(path) - 1)

\* HostConfig.Binds of the builder container, source and target
Binds ==
    {[source |-> ProjectDirOf(ConfigHash), target |-> <<"/project">>],
     [source |-> Dir(getLocalDockerSocket), target |-> <<"/tmp", "docker">>]}

\* the -H arguments of the dockerd that startDocker execs in the builder container
DockerdHosts ==
    {<<"unix://", "/tmp", "docker", "docker.sock">>,
     <<"unix://", "/var/run", "docker.sock">>}

\* one call of the container-runtime API: the daemon the client talks to, and the
\* operation
Call(sock, op) == [sock |-> sock, op |-> op]

----------------------------------------------------------------------------
(* Devcontainer builder: the stages of Build() *)

InitBuild ==
    /\ bpc = "startContainer"
    /\ stages = << >>
    /\ container \in {"absent", "created"}
    /\ hostDir = FALSE
    /\ nestedTags = {}
    /\ toolOutput = << >>
    /\ toolExec = [Running |-> FALSE, ExitCode |-> 0]
    /\ buildOutcome = NoOutcome
    /\ buildImageName = << >>
    /\ imageLabels = NoLabels
    /\ remoteUser = NoUser
    /\ buildRet = NoReturn
    /\ cleanUpRet = NotCalled
    /\ publishRet = NoPublish
    /\ dockerdRelay = "none"
    /\ RuntimeIdle
    /\ OwnershipIdle
    /\ CloneIdle
    \* the factory has made this builder: the repository is cloned into the
    \* working tree and detection found its devcontainer file
    /\ fproject = [Hash |-> ConfigHash, Build |-> "devcontainer",
                   DevContainerFilePath |-> DevcontainerDirForm]
    /\ workTree = [present |-> TRUE, dirForm |-> "file", flatForm |-> "absent"]
    /\ repoFiles = workTree
    /\ buildRecord = [kind |-> "absent", content |-> NoResult]
    /\ builders = {BuilderInstance(1, ConfigHash, ProjectDirOf(ConfigHash),
                                   DevcontainerDirForm)}
    /\ nextId = 1
    /\ factCall = NoCall
    /\ missed = {"c1"}
    /\ project = [Url |-> S("github.com"), Branch |-> NilString, Sha |-> << >>]
    /\ auth = NilAuth
    /\ gitCall = [op |-> "none", cmd |-> << >>, options |-> NoOptions,
                  cloned |-> FALSE, checkout |-> << >>, err |-> "nil"]

Ran(stage, err) == stages' = Append(stages, [stage |-> stage, err |-> err])

\* a Build() that goes on to the last stage after a stage has failed
BuildGoesOn(err) ==
    /\ bpc' = "getRemoteUser"
    /\ UNCHANGED buildRet

\* Build() returns (nil, err)
BuildFails(err) ==
    /\ bpc' = "returned"
    /\ buildRet' = [NoReturn EXCEPT !.returned = TRUE, !.err = err]

\* a startContainer that removes the container it created when the start fails
ContainerRolledBack(cont, created, started) ==
    IF started THEN "running" ELSE IF created THEN "absent" ELSE cont

\* the builder container after startContainer: ContainerCreate makes it,
\* ContainerStart sets it running, and no exit of startContainer removes it
ContainerAfter(cont, created, started) ==
    IF started THEN "running" ELSE IF created THEN "created" ELSE cont

\* startContainer: pull the builder image, make /tmp/<id>/etc/docker, create the
\* container named by the build ID and start it.  A container of that name already
\* there makes ContainerCreate fail.
startContainer ==
    /\ bpc = "startContainer"
    /\ \E failure \in {"nil", "NewClient", "ImagePull", "Copy", "MkdirAll",
                       "ContainerCreate", "ContainerStart"} :
        LET order == <<"NewClient", "ImagePull", "Copy", "MkdirAll",
                       "ContainerCreate", "ContainerStart">>
            conflict == container # "absent"
            err == IF conflict /\ failure \in {"nil", "ContainerStart"}
                   THEN "ContainerCreate" ELSE failure
            Reached(step) ==
                \/ err = "nil"
                \/ \E i, j \in 1..Len(order) : order[i] = step /\ order[j] = err /\ i <= j
            Passed(step) == Reached(step) /\ err # step
        IN  /\ dockerCalls' = dockerCalls
                 \o (IF Reached("ImagePull") THEN <<Call(FromEnv, "ImagePull")>> ELSE << >>)
                 \o (IF Reached("ContainerCreate")
                     THEN <<Call(FromEnv, "ContainerCreate")>> ELSE << >>)
                 \o (IF Reached("ContainerStart")
                     THEN <<Call(FromEnv, "ContainerStart")>> ELSE << >>)
            /\ hostDir' = (hostDir \/ Passed("MkdirAll"))
            /\ container' = ContainerAfter(container, Passed("ContainerCreate"),
                                           Passed("ContainerStart"))
            /\ Ran("startContainer", err)
            /\ IF err = "nil"
               THEN bpc' = "startDocker" /\ UNCHANGED buildRet
               ELSE BuildFails(err)
            /\ UNCHANGED <<nestedTags, toolOutput, toolExec, buildOutcome, buildImageName,
                           imageLabels, remoteUser, cleanUpRet, publishRet, dockerdRelay,
                           gitVars, factVars, ownVars, cloneVars>>

\* startDocker: exec dockerd in the builder container and attach to it; the output
\* is copied by a goroutine the call does not wait for
startDocker ==
    /\ bpc = "startDocker"
    /\ \E failure \in {"nil", "NewClient", "ContainerExecCreate", "ContainerExecAttach"} :
        /\ dockerCalls' = dockerCalls
             \o (IF failure # "NewClient"
                 THEN <<Call(FromEnv, "ContainerExecCreate")>> ELSE << >>)
             \o (IF failure \in {"nil", "ContainerExecAttach"}
                 THEN <<Call(FromEnv, "ContainerExecAttach")>> ELSE << >>)
        /\ Ran("startDocker", failure)
        /\ dockerdRelay' = IF failure = "nil" THEN "copying" ELSE dockerdRelay
        /\ IF failure = "nil"
           THEN bpc' = "buildDevcontainer" /\ UNCHANGED buildRet
           ELSE BuildFails(failure)
        /\ UNCHANGED <<container, hostDir, nestedTags, toolOutput, toolExec, buildOutcome,
                       buildImageName, imageLabels, remoteUser, cleanUpRet, publishRet,
                           gitVars, factVars, ownVars, cloneVars>>

\* buildDevcontainer: exec the build tool, scan its output for the outcome, check
\* the outcome and the exit code, tag the reported image in the nested daemon.
\* lines is what the stream delivers, exec what ContainerExecInspect reports.
buildDevcontainer ==
    /\ bpc = "buildDevcontainer"
    /\ \E failure \in {"nil", "NewClient", "ContainerExecCreate", "ContainerExecAttach",
                       "Scanner", "ContainerExecInspect", "BuilderClient", "ImageTag"},
          lines \in OutputStreams, exec \in ExecStates :
        LET attached == failure \notin {"NewClient", "ContainerExecCreate",
                                        "ContainerExecAttach"}
            scan == ScanOutput(lines, 1, NoOutcome)
            scanned == attached /\ ~scan.decodeErr /\ failure # "Scanner"
            outcomeOk == scanned /\ ~OutcomeFails(scan.outcome)
            inspected == outcomeOk /\ failure # "ContainerExecInspect"
            exitOk == inspected /\ ~ExitCodeFails(exec)
            panics == exitOk /\ scan.outcome.ImageName = << >>
            tagCalled == exitOk /\ ~panics /\ failure # "BuilderClient"
            tagged == tagCalled /\ failure # "ImageTag"
            err == IF ~attached THEN failure
                   ELSE IF scan.decodeErr THEN "Unmarshal"
                   ELSE IF failure = "Scanner" THEN failure
                   ELSE IF ~outcomeOk THEN "devcontainer build failed"
                   ELSE IF ~inspected THEN failure
                   ELSE IF ~exitOk THEN "devcontainer build failed"
                   ELSE IF panics THEN "panic"
                   ELSE IF ~tagged THEN failure
                   ELSE "nil"
        IN  /\ toolOutput' = IF attached THEN lines ELSE << >>
            /\ toolExec' = IF attached THEN exec ELSE toolExec
            /\ buildOutcome' = IF attached THEN scan.outcome ELSE buildOutcome
            /\ dockerCalls' = dockerCalls
                 \o (IF failure # "NewClient"
                     THEN <<Call(FromEnv, "ContainerExecCreate")>> ELSE << >>)
                 \o (IF attached \/ failure = "ContainerExecAttach"
                     THEN <<Call(FromEnv, "ContainerExecAttach")>> ELSE << >>)
                 \o (IF outcomeOk THEN <<Call(FromEnv, "ContainerExecInspect")>> ELSE << >>)
                 \o (IF tagCalled THEN <<Call(getBuilderDockerClient, "ImageTag")>> ELSE << >>)
            /\ nestedTags' = IF tagged
                              THEN nestedTags \cup {[ref |-> ImageTagName,
                                                     image |-> scan.outcome.ImageName[1]]}
                              ELSE nestedTags
            /\ buildImageName' = IF tagged THEN ImageTagName ELSE buildImageName
            /\ Ran("buildDevcontainer", err)
            /\ IF err = "nil" THEN bpc' = "getRemoteUser" /\ UNCHANGED buildRet
               ELSE IF err = "panic" THEN bpc' = "panicked" /\ UNCHANGED buildRet
               ELSE BuildFails(err)
            /\ UNCHANGED <<container, hostDir, imageLabels, remoteUser, cleanUpRet, publishRet, dockerdRelay,
                           gitVars, factVars, ownVars, cloneVars>>

\* getRemoteUser, and the return of Build(): inspect the tagged image in the nested
\* daemon and read the remote user off its devcontainer.metadata label
getRemoteUser ==
    /\ bpc = "getRemoteUser"
    /\ \E failure \in {"nil", "BuilderClient", "ImageInspectWithRaw"}, labels \in ImageLabels :
        LET inspected == failure = "nil"
            r == IF inspected THEN RemoteUserOf(labels) ELSE [user |-> "", err |-> failure]
        IN  /\ imageLabels' = IF inspected THEN labels ELSE imageLabels
            /\ remoteUser' = r
            /\ dockerCalls' = dockerCalls
                 \o (IF failure # "BuilderClient"
                     THEN <<Call(getBuilderDockerClient, "ImageInspectWithRaw")>> ELSE << >>)
            /\ Ran("getRemoteUser", r.err)
            /\ IF r.err = "nil"
               THEN /\ bpc' = "returned"
                    /\ buildRet' = [returned |-> TRUE, User |-> r.user,
                                    ImageName |-> buildImageName,
                                    ProjectVolumePath |-> ProjectDirOf(ConfigHash),
                                    err |-> "nil"]
               ELSE IF r.err = "panic" THEN bpc' = "panicked" /\ UNCHANGED buildRet
               ELSE BuildFails(r.err)
            /\ UNCHANGED <<container, hostDir, nestedTags, toolOutput, toolExec,
                           buildOutcome, buildImageName, cleanUpRet, publishRet, dockerdRelay,
                           gitVars, factVars, ownVars, cloneVars>>

\* a CleanUp that goes on to delete the working tree and reports success when the
\* container could not be removed
CleanUpIgnoresRemoveError(cont, tree, failure) ==
    IF failure = "NewClient"
    THEN [err |-> failure, container |-> cont, tree |-> tree, removeCalled |-> FALSE]
    ELSE [err |-> "nil", container |-> cont, tree |-> NoTree, removeCalled |-> TRUE]

\* CleanUp from the state of the container and of the working tree on:
\* ContainerRemove(buildId, Force) and, only when it returned no error,
\* os.RemoveAll(projectVolumePath).  The runtime answers the removal of a container
\* that does not exist with a "No such container" error, forced or not;
\* os.RemoveAll of a path that does not exist returns nil.
CleanUpOutcome(cont, tree, failure) ==
    IF failure = "NewClient"
    THEN [err |-> failure, container |-> cont, tree |-> tree, removeCalled |-> FALSE]
    ELSE IF cont = "absent"
    THEN [err |-> "No such container", container |-> cont, tree |-> tree,
          removeCalled |-> TRUE]
    ELSE IF failure = "ContainerRemove"
    THEN [err |-> failure, container |-> cont, tree |-> tree, removeCalled |-> TRUE]
    ELSE IF failure = "RemoveAll"
    THEN [err |-> failure, container |-> "absent", tree |-> tree, removeCalled |-> TRUE]
    ELSE [err |-> "nil", container |-> "absent", tree |-> NoTree, removeCalled |-> TRUE]

\* DevcontainerBuilder.CleanUp(), called by the owner of the builder once Build()
\* has returned: once after a Publish(), and up to twice without one
CleanUp ==
    /\ bpc \in {"returned", "published", "cleanedUp"}
    /\ bpc = "cleanedUp" => publishRet = NoPublish
    /\ \E failure \in {"nil", "NewClient", "ContainerRemove", "RemoveAll"} :
        LET r == CleanUpOutcome(container, workTree, failure)
        IN  /\ container' = r.container
            /\ workTree' = r.tree
            /\ cleanUpRet' = r.err
            /\ dockerCalls' = IF r.removeCalled
                              THEN Append(dockerCalls, Call(FromEnv, "ContainerRemove"))
                              ELSE dockerCalls
            /\ bpc' = IF bpc = "cleanedUp" THEN "cleanedUpAgain" ELSE "cleanedUp"
            /\ UNCHANGED <<stages, hostDir, nestedTags, toolOutput, toolExec, buildOutcome,
                           buildImageName, imageLabels, remoteUser, buildRet, publishRet,
                           dockerdRelay>>
            /\ UNCHANGED <<fproject, repoFiles, buildRecord, builders, nextId, factCall,
                           missed,
                           gitVars, ownVars, cloneVars>>

\* DevcontainerBuilder.Publish(), called by the owner of the builder once Build()
\* has returned a result: push b.buildImageName over the client of the nested
\* daemon.  The push reports its own failure in the stream it returns; Publish
\* copies the stream to the project log and returns nil either way.
Publish ==
    /\ bpc = "returned"
    /\ buildRet.err = "nil"
    /\ \E failure \in {"nil", "BuilderClient", "ImagePush"}, pushOk \in BOOLEAN :
        LET called == failure # "BuilderClient"
            pushed == failure = "nil" /\ pushOk
        IN  /\ dockerCalls' = IF called
                              THEN Append(dockerCalls, Call(getBuilderDockerClient, "ImagePush"))
                              ELSE dockerCalls
            /\ publishRet' = [err |-> failure,
                              pushed |-> IF pushed THEN buildImageName ELSE << >>]
            /\ bpc' = "published"
            /\ UNCHANGED <<stages, container, hostDir, nestedTags, toolOutput, toolExec,
                           buildOutcome, buildImageName, imageLabels, remoteUser, buildRet,
                           cleanUpRet, dockerdRelay,
                           gitVars, factVars, ownVars, cloneVars>>

\* the goroutine of startDocker: one io.Copy of the attached output to os.Stdout;
\* an error is logged, and with or without one the goroutine ends
startDockerRelay ==
    /\ dockerdRelay = "copying"
    /\ \E failure \in {"nil", "Copy"} :
        dockerdRelay' = IF failure = "nil" THEN "closed" ELSE "failed"
    /\ UNCHANGED <<bpc, stages, container, hostDir, nestedTags, toolOutput, toolExec,
                   buildOutcome, buildImageName, imageLabels, remoteUser, buildRet,
                   cleanUpRet, publishRet,
                   gitVars, factVars, runtimeVars, ownVars, cloneVars>>

NextBuild ==
    \/ startContainer
    \/ startDocker
    \/ buildDevcontainer
    \/ getRemoteUser
    \/ Publish
    \/ CleanUp

SpecBuild == InitBuild /\ [][NextBuild]_vars

----------------------------------------------------------------------------
(* Ownership reconciliation: UPDATE_UID_GID_SCRIPT of unnamed/part_000 *)

\* An /etc/passwd line name:x:uid:gid:gecos:home:shell is an entry with the fields
\* the script reads or writes; an /etc/group line name:x:gid:members is an entry
\* with name and gid.  Names are whole tokens: no account name is a part of
\* another, and gecos, home and shell are never numbers.
AccountNames == {"daytona", "alice", "bob"}
GroupNames == {"daytona", "staff"}
Ids == {1000, 1001, 2000}

HomeOf(name) == <<"/home", name>>
PasswdEntry(name, uid, gid) == [name |-> name, uid |-> uid, gid |-> gid, home |-> HomeOf(name)]
GroupEntry(name, gid) == [name |-> name, gid |-> gid]

UniqueUids(pw) == \A a, b \in pw : a.uid = b.uid => a = b
UniqueGids(gr) == \A g, h \in gr : g.gid = h.gid => g = h

\* the account databases the script is run on: every account and group is there or
\* not, no two accounts share a UID, no two groups share a GID
Passwds ==
    LET Choices == [AccountNames -> {<< >>} \cup (Ids \X Ids)]
        EntriesOf(f) == {PasswdEntry(n, f[n][1], f[n][2]) :
                            n \in {m \in AccountNames : f[m] # << >>}}
    IN  {pw \in {EntriesOf(f) : f \in Choices} : UniqueUids(pw)}

Groups ==
    LET Choices == [GroupNames -> {<< >>} \cup {<<i>> : i \in Ids}]
        EntriesOf(f) == {GroupEntry(n, f[n][1]) : n \in {m \in GroupNames : f[m] # << >>}}
    IN  {gr \in {EntriesOf(f) : f \in Choices} : UniqueGids(gr)}

\* A shell variable is a string: << >> when unset or empty, <<v>> otherwise.

\* line 164: OLD_UID, OLD_GID and HOME_FOLDER from the line of REMOTE_USER
OldIds(pw, user) ==
    IF \E a \in pw : a.name = user
    THEN LET a == CHOOSE a \in pw : a.name = user
         IN  [OLD_UID |-> <<a.uid>>, OLD_GID |-> <<a.gid>>, HOME_FOLDER |-> <<a.home>>]
    ELSE [OLD_UID |-> << >>, OLD_GID |-> << >>, HOME_FOLDER |-> << >>]

\* line 165: sed prints, for every line of /etc/passwd that holds
\* <field>:<field>:NEW_UID: anywhere, the line with its leftmost match replaced by
\* EXISTING_USER=<first field of the match>.  On a line whose UID is NEW_UID the
\* match starts the line and the word is EXISTING_USER=<name>; on a line whose UID is
\* another one and whose GID is NEW_UID the match starts at the password field and
\* the word is <name>:EXISTING_USER=x.  eval joins the words: with such a word
\* among them the whole is a command that is not found, next to which assignments
\* do not last, and EXISTING_USER stays unset.
ExistingUser(pw, newUid) ==
    LET named == {a \in pw : a.uid = newUid}
        broken == {a \in pw : a.uid # newUid /\ a.gid = newUid}
    IN  IF broken # {} \/ named = {} THEN << >>
        ELSE <<(CHOOSE a \in named : TRUE).name>>

\* line 166: EXISTING_GROUP from the line of /etc/group whose GID is NEW_GID (the
\* GID is the last field followed by a colon, so the match starts the line)
ExistingGroup(gr, newGid) ==
    IF \E g \in gr : g.gid = newGid
    THEN <<(CHOOSE g \in gr : g.gid = newGid).name>>
    ELSE << >>

\* a test that never finds the IDs equal
SameIdsNever(old, newUid, newGid) == FALSE

\* line 169: [ "$OLD_UID" = "$NEW_UID" -a "$OLD_GID" = "$NEW_GID" ]
SameIds(old, newUid, newGid) ==
    old.OLD_UID = <<newUid>> /\ old.OLD_GID = <<newGid>>

\* line 171: [ "$OLD_UID" != "$NEW_UID" -a -n "$EXISTING_USER" ]
UidTaken(old, newUid, existingUser) ==
    old.OLD_UID # <<newUid>> /\ existingUser # << >>

\* a script that takes the requested GID whoever holds it
KeptGidRequested(old, newGid, existingGroup) == newGid

\* lines 174-177: NEW_GID after the test for a group that holds it
KeptGid(old, newGid, existingGroup) ==
    IF old.OLD_GID # <<newGid>> /\ existingGroup # << >> THEN old.OLD_GID[1] ELSE newGid

\* line 179: the UID and GID fields of the line of REMOTE_USER
RewritePasswd(pw, user, uid, gid) ==
    {IF a.name = user THEN [a EXCEPT !.uid = uid, !.gid = gid] ELSE a : a \in pw}

\* a script that leaves /etc/group alone
RenumberGroupNever(gr, oldGid, gid) == gr

\* lines 180-182: the GID field of every line of /etc/group that holds OLD_GID
RenumberGroup(gr, oldGid, gid) ==
    IF oldGid # gid
    THEN {IF g.gid = oldGid THEN [g EXCEPT !.gid = gid] ELSE g : g \in gr}
    ELSE gr

\* the script: the databases it leaves, what it prints, what it chowns
UPDATE_UID_GID_SCRIPT(pw, gr, user, newUid, newGid) ==
    LET old == OldIds(pw, user)
        existingUser == ExistingUser(pw, newUid)
        existingGroup == ExistingGroup(gr, newGid)
        Untouched(msg) == [passwd |-> pw, group |-> gr, out |-> <<msg>>, chown |-> << >>]
    IN  IF old.OLD_UID = << >> THEN Untouched("Remote user not found in /etc/passwd")
        ELSE IF SameIds(old, newUid, newGid) THEN Untouched("UIDs and GIDs are the same")
        ELSE IF UidTaken(old, newUid, existingUser) THEN Untouched("User with UID exists")
        ELSE LET gid == KeptGid(old, newGid, existingGroup)
             IN  [passwd |-> RewritePasswd(pw, user, newUid, gid),
                  group |-> RenumberGroup(gr, old.OLD_GID[1], gid),
                  out |-> (IF gid # newGid THEN <<"Group with GID exists">> ELSE << >>)
                             \o <<"Updating UID:GID">>,
                  chown |-> <<[uid |-> newUid, gid |-> gid, path |-> old.HOME_FOLDER[1]]>>]

\* the run of the script: REMOTE_USER is the container user, NEW_UID and NEW_GID the
\* IDs of the user the repository is cloned for
RunScript(user, newUid, newGid) ==
    LET r == UPDATE_UID_GID_SCRIPT(passwd, group, user, newUid, newGid)
    IN  /\ passwd' = r.passwd
        /\ group' = r.group
        /\ ownCall' = [ran |-> TRUE, REMOTE_USER |-> user, NEW_UID |-> newUid,
                       NEW_GID |-> newGid, passwd |-> passwd, group |-> group,
                       out |-> r.out, chown |-> r.chown]

InitOwnership ==
    /\ passwd \in Passwds
    /\ group \in Groups
    /\ ownCall = NoOwnCall
    /\ CloneIdle
    /\ RuntimeIdle
    /\ BuildIdle
    /\ FactoryIdle
    /\ project = [Url |-> S("github.com"), Branch |-> NilString, Sha |-> << >>]
    /\ auth = NilAuth
    /\ gitCall = [op |-> "none", cmd |-> << >>, options |-> NoOptions,
                  cloned |-> FALSE, checkout |-> << >>, err |-> "nil"]

\* sh -c UPDATE_UID_GID_SCRIPT as root, with REMOTE_USER=daytona
UpdateUidGid ==
    /\ ~ownCall.ran
    /\ \E newUid \in Ids, newGid \in Ids : RunScript("daytona", newUid, newGid)
    /\ UNCHANGED <<gitVars, factVars, buildVars, runtimeVars, cloneVars>>

NextOwnership == UpdateUidGid

SpecOwnership == InitOwnership /\ [][NextOwnership]_vars

----------------------------------------------------------------------------
(* In-container acquisition: DockerClient.cloneProjectRepository of unnamed/part_000 *)

\* The function and the goroutine it starts share the variable err: every call of
\* the function assigns it (c, err := ..., currentUser, err := ..., _, err = ...,
\* res, err := ... all name the err of the function's scope) and the goroutine
\* assigns it the result of GetContainerLogs.  Nothing orders the two, so an
\* assignment, the test of err and the return of err are steps of their own.

\* UID and GID of the user the repository is cloned for: root, or another user
UserIds == {<<0, 0>>, <<1000, 1000>>, <<1001, 2000>>}

\* the account database of the daytonaio/workspace-project image
ImagePasswd == {PasswdEntry("daytona", 1000, 1000), PasswdEntry("alice", 1001, 1001)}
ImageGroup == {GroupEntry("daytona", 1000), GroupEntry("staff", 2000)}

\* containerUser: "root" when newUid and newGid are both "0"
ContainerUser(u) == IF u.newUid = 0 /\ u.newGid = 0 THEN "root" ELSE "daytona"

\* a call of the function and what it returned; user is ExecConfig.User of an
\* ExecSync and empty for every other call
CallResult(call, err, exitCode) ==
    [call |-> call, user |-> "", err |-> err, exitCode |-> exitCode]

ExecResult(call, user, err, exitCode) ==
    [CallResult(call, err, exitCode) EXCEPT !.user = user]

\* the position after a call whose err tested nil
NextCall(call, u) ==
    LET exec == IF ContainerUser(u) # "root" THEN "ExecSync(script)" ELSE "ExecSync(clone)"
    IN  IF call = "user.Current"
        THEN IF u.ssh THEN At("GetUserUidGid", "call") ELSE At(exec, "call")
        ELSE IF call = "GetUserUidGid" THEN At(exec, "call")
        ELSE IF call = "ExecSync(script)" THEN At("ExecSync(clone)", "call")
        ELSE At("ExitCode", "test")

InitClone ==
    /\ cpc = At("ContainerCreate", "call")
    /\ rpc = "none"
    /\ cerr = "nil"
    /\ relayTries = 0
    /\ cloneContainer = "absent"
    /\ cloneUser \in {[NoCloneUser EXCEPT !.ssh = ssh] : ssh \in BOOLEAN}
    /\ callResults = << >>
    /\ cloneRet = NoCloneReturn
    /\ passwd = ImagePasswd
    /\ group = ImageGroup
    /\ ownCall = NoOwnCall
    /\ RuntimeIdle
    /\ BuildIdle
    /\ FactoryIdle
    /\ project = [Url |-> S("github.com"), Branch |-> NilString, Sha |-> << >>]
    /\ auth = NilAuth
    /\ gitCall = [op |-> "none", cmd |-> << >>, options |-> NoOptions,
                  cloned |-> FALSE, checkout |-> << >>, err |-> "nil"]

\* a return that runs no deferred call
DeferredNothing(calls) == calls

\* line 94: defer d.removeContainer(c.ID), registered once the container exists;
\* every later return of the function issues the removal
Deferred(calls) == Append(calls, Call(apiClient, "ContainerRemove"))

\* the function returns err; the deferred removeContainer runs, and its own error
\* is dropped
ReturnsWithRemove(err) ==
    /\ cloneRet' = [returned |-> TRUE, err |-> err]
    /\ cpc' = At("done", "-")
    /\ \E removed \in BOOLEAN :
          cloneContainer' = IF removed THEN "removed" ELSE cloneContainer

\* lines 77-92: ContainerCreate; there is no goroutine and no defer yet
ContainerCreateCall ==
    /\ cpc = At("ContainerCreate", "call")
    /\ \E r \in {"nil", "ContainerCreate"} :
        /\ cerr' = r
        /\ callResults' = Append(callResults, CallResult("ContainerCreate", r, 0))
        /\ dockerCalls' = Append(dockerCalls, Call(apiClient, "ContainerCreate"))
        /\ IF r = "nil"
           THEN /\ cloneContainer' = "created"
                /\ cpc' = At("ContainerStart", "call")
                /\ UNCHANGED cloneRet
           ELSE /\ cloneRet' = [returned |-> TRUE, err |-> r]
                /\ cpc' = At("done", "-")
                /\ UNCHANGED cloneContainer
    /\ UNCHANGED <<rpc, relayTries, cloneUser, ownVars, gitVars, factVars, buildVars>>

\* lines 94-110: defer removeContainer, ContainerStart, and the go statement
ContainerStartCall ==
    /\ cpc = At("ContainerStart", "call")
    /\ \E r \in {"nil", "ContainerStart"} :
        /\ cerr' = r
        /\ callResults' = Append(callResults, CallResult("ContainerStart", r, 0))
        /\ IF r = "nil"
           THEN /\ cloneContainer' = "running"
                /\ cpc' = At("user.Current", "call")
                /\ rpc' = "GetContainerLogs"
                /\ dockerCalls' = Append(dockerCalls, Call(apiClient, "ContainerStart"))
                /\ UNCHANGED cloneRet
           ELSE /\ ReturnsWithRemove(r)
                /\ dockerCalls' = Deferred(Append(dockerCalls,
                                                   Call(apiClient, "ContainerStart")))
                /\ UNCHANGED rpc
    /\ UNCHANGED <<relayTries, cloneUser, ownVars, gitVars, factVars, buildVars>>

\* line 112: currentUser, err := user.Current()
UserCurrent ==
    /\ cpc = At("user.Current", "call")
    /\ \E r \in {"nil", "user.Current"}, ids \in UserIds :
        /\ cerr' = r
        /\ callResults' = Append(callResults, CallResult("user.Current", r, 0))
        /\ cloneUser' = IF r = "nil"
                        THEN [cloneUser EXCEPT !.newUid = ids[1], !.newGid = ids[2]]
                        ELSE cloneUser
    /\ cpc' = At("user.Current", "test")
    /\ UNCHANGED <<rpc, relayTries, cloneContainer, cloneRet, ownVars, gitVars, factVars,
                   buildVars, runtimeVars>>

\* line 122: newUid, newGid, err = sshClient.GetUserUidGid()
GetUserUidGid ==
    /\ cpc = At("GetUserUidGid", "call")
    /\ \E r \in {"nil", "GetUserUidGid"}, ids \in UserIds :
        /\ cerr' = r
        /\ callResults' = Append(callResults, CallResult("GetUserUidGid", r, 0))
        /\ cloneUser' = IF r = "nil"
                        THEN [cloneUser EXCEPT !.newUid = ids[1], !.newGid = ids[2]]
                        ELSE cloneUser
    /\ cpc' = At("GetUserUidGid", "test")
    /\ UNCHANGED <<rpc, relayTries, cloneContainer, cloneRet, ownVars, gitVars, factVars,
                   buildVars, runtimeVars>>

\* lines 136-144: _, err = d.ExecSync(c.ID, sh -c UPDATE_UID_GID_SCRIPT as root)
ExecSyncScript ==
    /\ cpc = At("ExecSync(script)", "call")
    /\ \E r \in {"nil", "ExecSync(script)"} :
        /\ cerr' = r
        /\ callResults' = Append(callResults, ExecResult("ExecSync(script)", "root", r, 0))
        /\ IF r = "nil"
           THEN RunScript(ContainerUser(cloneUser), cloneUser.newUid, cloneUser.newGid)
           ELSE UNCHANGED ownVars
    /\ cpc' = At("ExecSync(script)", "test")
    /\ dockerCalls' = Append(dockerCalls, Call(apiClient, "ContainerExec"))
    /\ UNCHANGED <<rpc, relayTries, cloneContainer, cloneUser, cloneRet, gitVars, factVars,
                   buildVars>>

\* lines 150-153: res, err := d.ExecSync(c.ID, cloneCmd as containerUser)
ExecSyncClone ==
    /\ cpc = At("ExecSync(clone)", "call")
    /\ \E r \in {"nil", "ExecSync(clone)"}, exitCode \in {0, 128} :
        /\ cerr' = r
        /\ callResults' = Append(callResults,
                                 ExecResult("ExecSync(clone)", ContainerUser(cloneUser), r,
                                            IF r = "nil" THEN exitCode ELSE 0))
    /\ cpc' = At("ExecSync(clone)", "test")
    /\ dockerCalls' = Append(dockerCalls, Call(apiClient, "ContainerExec"))
    /\ UNCHANGED <<rpc, relayTries, cloneContainer, cloneUser, cloneRet, ownVars, gitVars,
                   factVars, buildVars>>

\* if err != nil, after any of the four calls
TestErr ==
    /\ cpc.phase = "test"
    /\ cpc.at # "ExitCode"
    /\ cpc' = IF cerr = "nil" THEN NextCall(cpc.at, cloneUser) ELSE At(cpc.at, "return")
    /\ UNCHANGED <<rpc, cerr, relayTries, cloneContainer, cloneUser, callResults, cloneRet,
                   ownVars, gitVars, factVars, buildVars, runtimeVars>>

\* return err
ReturnErr ==
    /\ cpc.phase = "return"
    /\ ReturnsWithRemove(cerr)
    /\ dockerCalls' = Deferred(dockerCalls)
    /\ UNCHANGED <<rpc, cerr, relayTries, cloneUser, callResults, ownVars, gitVars,
                   factVars, buildVars>>

\* lines 157-161: a non-zero exit code of git clone is an error of its own
CheckExitCode ==
    /\ cpc = At("ExitCode", "test")
    /\ ReturnsWithRemove(IF callResults[Len(callResults)].exitCode # 0
                         THEN "git clone failed with exit code" ELSE "nil")
    /\ dockerCalls' = Deferred(dockerCalls)
    /\ UNCHANGED <<rpc, cerr, relayTries, cloneUser, callResults, ownVars, gitVars,
                   factVars, buildVars>>

\* line 103, in the goroutine: err = d.GetContainerLogs(c.ID, opts.LogWriter); the
\* logs of a container that has been removed cannot be read.  The loop has no
\* bound of its own: relayTries and dockerCalls keep the first MaxRelayTries calls
\* and every later call changes err only.
RelayGetContainerLogs ==
    /\ rpc = "GetContainerLogs"
    /\ \E r \in {"nil", "GetContainerLogs"} :
        /\ cloneContainer = "removed" => r # "nil"
        /\ cerr' = r
    /\ relayTries' = IF relayTries < MaxRelayTries THEN relayTries + 1 ELSE relayTries
    /\ rpc' = "test"
    /\ dockerCalls' = IF relayTries < MaxRelayTries
                      THEN Append(dockerCalls, Call(apiClient, "ContainerLogs"))
                      ELSE dockerCalls
    /\ UNCHANGED <<cpc, cloneContainer, cloneUser, callResults, cloneRet, ownVars, gitVars,
                   factVars, buildVars>>

\* lines 104-108, in the goroutine: break when err is nil, else log it, sleep and
\* call again
RelayTest ==
    /\ rpc = "test"
    /\ rpc' = IF cerr = "nil" THEN "done" ELSE "GetContainerLogs"
    /\ UNCHANGED <<cpc, cerr, relayTries, cloneContainer, cloneUser, callResults, cloneRet,
                   ownVars, gitVars, factVars, buildVars, runtimeVars>>

NextClone ==
    \/ ContainerCreateCall
    \/ ContainerStartCall
    \/ UserCurrent
    \/ GetUserUidGid
    \/ ExecSyncScript
    \/ ExecSyncClone
    \/ TestErr
    \/ ReturnErr
    \/ CheckExitCode
    \/ RelayGetContainerLogs
    \/ RelayTest

SpecClone == InitClone /\ [][NextClone]_vars

\* the steps of the function, and the steps of the goroutine it starts
CloneFunction ==
    \/ ContainerCreateCall
    \/ ContainerStartCall
    \/ UserCurrent
    \/ GetUserUidGid
    \/ ExecSyncScript
    \/ ExecSyncClone
    \/ TestErr
    \/ ReturnErr
    \/ CheckExitCode

CloneRelay ==
    \/ RelayGetContainerLogs
    \/ RelayTest

\* the Go scheduler runs every goroutine that can run: the function goes on to its
\* return, and the relay goes on calling, sleeping 100 ms and calling again
SpecCloneLive ==
    InitClone /\ [][NextClone]_vars /\ WF_vars(CloneFunction) /\ WF_vars(CloneRelay)

----------------------------------------------------------------------------
(* The two log relays: the goroutine of cloneProjectRepository and the goroutine
   of startDocker, each with the function that starts it *)

\* cloneProjectRepository is entered while a Build() has started its builder
\* container and is about to call startDocker
InitRelay ==
    /\ cpc = At("ContainerCreate", "call")
    /\ rpc = "none"
    /\ cerr = "nil"
    /\ relayTries = 0
    /\ cloneContainer = "absent"
    /\ cloneUser \in {[NoCloneUser EXCEPT !.ssh = ssh] : ssh \in BOOLEAN}
    /\ callResults = << >>
    /\ cloneRet = NoCloneReturn
    /\ passwd = ImagePasswd
    /\ group = ImageGroup
    /\ ownCall = NoOwnCall
    /\ bpc = "startDocker"
    /\ stages = <<[stage |-> "startContainer", err |-> "nil"]>>
    /\ container = "running"
    /\ hostDir = TRUE
    /\ nestedTags = {}
    /\ toolOutput = << >>
    /\ toolExec = [Running |-> FALSE, ExitCode |-> 0]
    /\ buildOutcome = NoOutcome
    /\ buildImageName = << >>
    /\ imageLabels = NoLabels
    /\ remoteUser = NoUser
    /\ buildRet = NoReturn
    /\ cleanUpRet = NotCalled
    /\ publishRet = NoPublish
    /\ dockerdRelay = "none"
    /\ dockerCalls = <<Call(FromEnv, "ImagePull"), Call(FromEnv, "ContainerCreate"),
                       Call(FromEnv, "ContainerStart")>>
    /\ fproject = [Hash |-> ConfigHash, Build |-> "devcontainer",
                   DevContainerFilePath |-> DevcontainerDirForm]
    /\ workTree = [present |-> TRUE, dirForm |-> "file", flatForm |-> "absent"]
    /\ repoFiles = workTree
    /\ buildRecord = [kind |-> "absent", content |-> NoResult]
    /\ builders = {BuilderInstance(1, ConfigHash, ProjectDirOf(ConfigHash),
                                   DevcontainerDirForm)}
    /\ nextId = 1
    /\ factCall = NoCall
    /\ missed = {"c1"}
    /\ project = [Url |-> S("github.com"), Branch |-> NilString, Sha |-> << >>]
    /\ auth = NilAuth
    /\ gitCall = [op |-> "none", cmd |-> << >>, options |-> NoOptions,
                  cloned |-> FALSE, checkout |-> << >>, err |-> "nil"]

NextRelay ==
    \/ NextClone
    \/ startDocker
    \/ startDockerRelay

SpecRelay == InitRelay /\ [][NextRelay]_vars

----------------------------------------------------------------------------
(* Properties of repository acquisition, checked under SpecGit *)

HasWord(cmd, w) == \E i \in 1..Len(cmd) : cmd[i] = w

HasArg(cmd, flag, value) ==
    \E i \in 1..(Len(cmd) - 1) : cmd[i] = flag /\ cmd[i + 1] = value

\* the command ends with  && cd <dir> && git checkout <sha>
EndsWithCheckout(cmd, sha) ==
    /\ Len(cmd) > 7
    /\ SubSeq(cmd, Len(cmd) - 6, Len(cmd))
         = <<S("&&"), S("cd"), ProjectDir, S("&&"), S("git"), S("checkout"), sha>>

\* the word of a clone command that stands right before the destination
UrlArg(cmd, dir) ==
    cmd[CHOOSE i \in 1..(Len(cmd) - 1) :
            cmd[i + 1] = dir /\ \A j \in 1..(i - 1) : cmd[j + 1] # dir]

BranchSet(repo) == ~repo.Branch.isNil /\ repo.Branch.val # << >>
AliasSentinel(repo) == BranchSet(repo) /\ repo.Sha = repo.Branch.val
BranchTip(repo) == BranchSet(repo) /\ repo.Sha # << >> /\ repo.Sha # repo.Branch.val
RefOf(repo) == S("refs/heads/") \o repo.Branch.val

\* C1 as stated: in the alias case (branch set, pinned commit equal to the branch
\* name) CloneRepositoryCmd renders --branch <branch> followed by an explicit
\* git checkout <commit>, and CloneRepository clones that branch reference and then
\* checks out the commit.
C1_AliasClonesBranchAndChecksOut ==
    AliasSentinel(project) =>
        /\ gitCall.op = "CloneRepositoryCmd" =>
              /\ HasArg(gitCall.cmd, S("--branch"), project.Branch.val)
              /\ EndsWithCheckout(gitCall.cmd, project.Sha)
        /\ (gitCall.op = "CloneRepository" /\ gitCall.cloned) =>
              /\ gitCall.options.ReferenceName = RefOf(project)
              /\ (gitCall.err \in {"nil", "Checkout"}
                    => gitCall.checkout = <<NewHash(project.Sha)>>)

\* C1 amended: in the alias case CloneRepositoryCmd renders a single-branch clone
\* with no --branch argument (the default branch) followed by an explicit
\* git checkout <commit>, and CloneRepository sets no reference name and, once the
\* clone and the worktree are there, checks out the commit.
C1_AliasClonesDefaultAndChecksOut ==
    AliasSentinel(project) =>
        /\ gitCall.op = "CloneRepositoryCmd" =>
              /\ HasWord(gitCall.cmd, S("--single-branch"))
              /\ ~HasWord(gitCall.cmd, S("--branch"))
              /\ EndsWithCheckout(gitCall.cmd, project.Sha)
        /\ (gitCall.op = "CloneRepository" /\ gitCall.cloned) =>
              /\ gitCall.options.SingleBranch
              /\ gitCall.options.ReferenceName = << >>
              /\ (gitCall.err \in {"nil", "Checkout"}
                    => gitCall.checkout = <<NewHash(project.Sha)>>)

C1_Witness ==
    /\ AliasSentinel(project)
    /\ gitCall.op = "CloneRepository"
    /\ gitCall.err = "nil"
    /\ gitCall.checkout = <<project.Sha>>

\* C2: with a branch set and a different, non-empty pinned commit, both
\* CloneRepositoryCmd and CloneRepository clone single-branch at that branch and
\* perform no checkout of the pinned commit.
C2_BranchTipNoCheckout ==
    BranchTip(project) =>
        /\ gitCall.op = "CloneRepositoryCmd" =>
              /\ HasWord(gitCall.cmd, S("--single-branch"))
              /\ HasArg(gitCall.cmd, S("--branch"), project.Branch.val)
              /\ ~HasWord(gitCall.cmd, S("checkout"))
              /\ ~HasWord(gitCall.cmd, project.Sha)
        /\ gitCall.op = "CloneRepository" =>
              /\ gitCall.options.SingleBranch
              /\ gitCall.options.ReferenceName = RefOf(project)
              /\ gitCall.checkout = << >>
              /\ gitCall.err \in {"nil", "PlainClone"}

C2_Witness ==
    /\ BranchTip(project)
    /\ project.Branch.val = S("main") /\ project.Sha = S("abc123")
    /\ gitCall.op = "CloneRepository"
    /\ gitCall.cloned

\* C3: with no branch (nil or "") the default branch is cloned: CloneRepositoryCmd
\* renders no --branch argument and no checkout step, CloneRepository sets no
\* reference name and checks nothing out, whatever the pinned commit.
C3_NoBranchClonesDefault ==
    ~BranchSet(project) =>
        /\ gitCall.op = "CloneRepositoryCmd" =>
              /\ ~HasWord(gitCall.cmd, S("--branch"))
              /\ ~HasWord(gitCall.cmd, S("checkout"))
              /\ Len(gitCall.cmd) = 5
        /\ gitCall.op = "CloneRepository" =>
              /\ gitCall.options.ReferenceName = << >>
              /\ gitCall.checkout = << >>
              /\ gitCall.err \in {"nil", "PlainClone"}

C3_Witness ==
    /\ ~BranchSet(project)
    /\ project.Sha = S("abc123")
    /\ gitCall.op = "CloneRepositoryCmd"

\* the repository URL with a leading https:// or http:// removed
WithoutScheme(url) ==
    IF HasPrefix(url, SchemeHttps) \/ HasPrefix(url, SchemeHttp) THEN Tail(url) ELSE url

----------------------------------------------------------------------------
(* Properties of the builder factory, checked under SpecFactory *)

CreateDetected == factCall.op = "Create" /\ factCall.detected # "-"
NoStatError(tree) == tree.dirForm # "staterr" /\ tree.flatForm # "staterr"
HasNoDevcontainerFile(tree) == tree.dirForm # "file" /\ tree.flatForm # "file"

\* C7: detectDevcontainerConfigFilePath returns .devcontainer/devcontainer.json if
\* that file exists, otherwise .devcontainer.json if that file exists, and the empty
\* path only when neither exists (stated here for trees on which os.Stat does not
\* fail, where "exists" has one meaning).
C7_DetectChecksBothLocations ==
    (CreateDetected /\ NoStatError(workTree)) =>
        factCall.detected =
            IF workTree.dirForm = "file" THEN DevcontainerDirForm
            ELSE IF workTree.flatForm = "file" THEN DevcontainerFlatForm
            ELSE ""

\* C8: when the cloned tree has no devcontainer configuration file and the project
\* carries no pre-built-image descriptor, Create returns a non-nil error (never a
\* nil builder with a nil error).  Stated for the calls that reach strategy
\* detection.
C8_UnknownStrategyIsAnError ==
    (/\ CreateDetected
     /\ workTree.present
     /\ HasNoDevcontainerFile(workTree)
     /\ fproject.Build # "image")
        => factCall.err # "nil"

\* C9: whenever Create returns without error it returns a builder instance, bound
\* to the build ID just generated and to the working tree <basePath>/<hash>/project,
\* for every build descriptor variant.
C9_CreateWithoutErrorYieldsBuilder ==
    (factCall.op = "Create" /\ factCall.err = "nil") =>
        /\ factCall.builderId = nextId
        /\ \E b \in builders :
              /\ b.id = factCall.builderId
              /\ b.projectVolumePath = ProjectDirOf(fproject.Hash)

\* C10: CheckExistingBuild returns the decoded record when build.json holds one,
\* no result and no error when the file does not exist, and an error for any other
\* stat, open or decode failure; it issues no container-runtime call and changes
\* nothing on disk.
C10_CheckExistingBuildOnlyReads ==
    [][(factCall'.op = "CheckExistingBuild" /\ factCall'.err # "GetConfigHash") =>
          /\ UNCHANGED <<workTree, buildRecord, repoFiles, builders, nextId, dockerCalls>>
          /\ buildRecord.kind = "valid" =>
                /\ factCall'.found
                /\ factCall'.result = buildRecord.content
                /\ factCall'.err = "nil"
          /\ buildRecord.kind = "absent" =>
                (~factCall'.found /\ factCall'.err = "nil")
          /\ buildRecord.kind \in {"staterr", "openerr", "corrupt"} =>
                (~factCall'.found /\ factCall'.err \notin {"nil", "GetConfigHash"})
      ]_vars

C10_Witness ==
    /\ factCall.op = "CheckExistingBuild"
    /\ factCall.found
    /\ factCall.result \in BuildResults
    /\ factCall.err = "nil"
    /\ dockerCalls = << >>

----------------------------------------------------------------------------
(* Properties of the devcontainer build pipeline, checked under SpecBuild *)

StageRan(stage) == \E i \in 1..Len(stages) : stages[i].stage = stage
StageOk(stage) == \E i \in 1..Len(stages) : stages[i] = [stage |-> stage, err |-> "nil"]
StageErr(stage) == stages[CHOOSE i \in 1..Len(stages) : stages[i].stage = stage].err

BuildFailed == buildRet.returned /\ buildRet.err # "nil"
NothingTagged ==
    /\ \A i \in 1..Len(dockerCalls) : dockerCalls[i].op # "ImageTag"
    /\ nestedTags = {}
    /\ buildImageName = << >>

\* C5: a devcontainer build succeeds only if the decoded outcome is "success" and
\* the exit code of the build tool's exec is 0; with outcome "success" and another
\* exit code, or exit code 0 and an outcome that is missing or not "success", the
\* build fails, no image is tagged and buildImageName stays unset.
C5_SuccessNeedsOutcomeAndExitCode ==
    StageRan("buildDevcontainer") =>
        /\ StageOk("buildDevcontainer") =>
              (buildOutcome.Outcome = "success" /\ toolExec.ExitCode = 0)
        /\ (buildOutcome.Outcome # "success" \/ toolExec.ExitCode # 0) =>
              /\ BuildFailed
              /\ buildRet.ImageName = << >>
              /\ NothingTagged

C5_Witness ==
    /\ toolOutput = <<<<Text, LBrace, OutcomeSuccess, ImageNameOne, RBrace, Text>>>>
    /\ buildOutcome = [Outcome |-> "success", ImageName |-> <<ToolImage>>]
    /\ toolExec = [Running |-> FALSE, ExitCode |-> 1]
    /\ BuildFailed
    /\ buildRet.err = "devcontainer build failed"
    /\ NothingTagged

\* labels whose metadata elements are all objects with a remoteUser that is absent,
\* null or a string
PlainMetadata(labels) ==
    \A i \in 1..Len(labels.elems) :
        labels.elems[i].object /\ labels.elems[i].remoteUser.type # "number"

HasRemoteUserNonEmpty(elem) ==
    elem.remoteUser.type = "string" /\ elem.remoteUser.val # ""

NonEmptyUsers(labels) ==
    {i \in 1..Len(labels.elems) : HasRemoteUserNonEmpty(labels.elems[i])}

LabelsInspected ==
    /\ StageRan("getRemoteUser")
    /\ StageErr("getRemoteUser") \notin {"BuilderClient", "ImageInspectWithRaw"}

\* C6: getRemoteUser returns the remoteUser of the first object of the
\* devcontainer.metadata array that has a non-empty remoteUser; when the label is
\* absent or no element has a non-empty remoteUser it returns an error and Build
\* returns no result.
C6_FirstNonEmptyRemoteUser ==
    (LabelsInspected /\ PlainMetadata(imageLabels)) =>
        IF imageLabels.present /\ imageLabels.kind = "array" /\ NonEmptyUsers(imageLabels) # {}
        THEN LET first == CHOOSE i \in NonEmptyUsers(imageLabels) :
                              \A j \in NonEmptyUsers(imageLabels) : i <= j
             IN  /\ remoteUser = [user |-> imageLabels.elems[first].remoteUser.val,
                                  err |-> "nil"]
                 /\ buildRet.returned /\ buildRet.User = remoteUser.user
        ELSE /\ remoteUser.err # "nil"
             /\ BuildFailed

----------------------------------------------------------------------------
(* Properties of CleanUp, checked under SpecBuild *)

\* a step of CleanUp
CleanUpStep == bpc' \in {"cleanedUp", "cleanedUpAgain"} /\ bpc' # bpc

RemoveCalled == dockerCalls' = Append(dockerCalls, Call(FromEnv, "ContainerRemove"))

\* C11: CleanUp force-removes the builder container and then deletes the working
\* tree, and returns the error of either step: it returns success only if the
\* container is gone and the working tree is gone, and when the container removal
\* fails it returns that error and leaves the working tree in place.
C11_CleanUpSurfacesErrors ==
    [][CleanUpStep =>
          /\ cleanUpRet' = "nil" => (container' = "absent" /\ ~workTree'.present)
          /\ cleanUpRet' # "NewClient" => RemoveCalled
          /\ container' # "absent" => (cleanUpRet' # "nil" /\ workTree' = workTree)
          /\ workTree'.present => cleanUpRet' # "nil"
          /\ (container # "absent" /\ container' = "absent" /\ cleanUpRet' # "RemoveAll")
                => (cleanUpRet' = "nil" /\ workTree' = NoTree)
      ]_vars

C11_Witness ==
    /\ bpc = "cleanedUp"
    /\ cleanUpRet = "ContainerRemove"
    /\ container = "running"
    /\ workTree.present
    /\ dockerCalls[Len(dockerCalls)] = Call(FromEnv, "ContainerRemove")

\* failures of the environment of CleanUp: no runtime client, a file system that
\* refuses the deletion
EnvironmentFailures == {"NewClient", "RemoveAll"}

\* C12: CleanUp is idempotent: called after a successful CleanUp, or after a Build
\* that failed before the builder container was created, it returns success and
\* leaves the container absent and the working tree absent (unless the environment
\* itself fails).
C12_CleanUpIsIdempotent ==
    [][(/\ CleanUpStep
        /\ container = "absent"
        /\ \/ (bpc = "cleanedUp" /\ cleanUpRet = "nil")
           \/ (bpc = "returned" /\ buildRet.err # "nil")
        /\ cleanUpRet' \notin EnvironmentFailures)
          => /\ cleanUpRet' = "nil"
             /\ container' = "absent"
             /\ ~workTree'.present
      ]_vars

\* C13: after a Build, successful or failed, and a CleanUp that returned success,
\* nothing the builder created remains: not the builder container, not the working
\* tree, not the host directory /tmp/<buildId>.
C13_CleanUpLeavesNothing ==
    (/\ bpc \in {"cleanedUp", "cleanedUpAgain"}
     /\ cleanUpRet = "nil"
     /\ buildRet.returned)
        => /\ container = "absent"
           /\ ~workTree.present
           /\ ~hostDir

----------------------------------------------------------------------------
(* Properties of the ownership procedure, checked under SpecOwnership *)

AccountExists == \E a \in ownCall.passwd : a.name = ownCall.REMOTE_USER
OldAccount == CHOOSE a \in ownCall.passwd : a.name = ownCall.REMOTE_USER
NewAccount == CHOOSE a \in passwd : a.name = ownCall.REMOTE_USER
OthersOf(pw) == {a \in pw : a.name # ownCall.REMOTE_USER}

\* another account owns the target UID; some group holds the target GID
UidOwnedByOther == \E a \in OthersOf(ownCall.passwd) : a.uid = ownCall.NEW_UID
GidHeld == \E g \in ownCall.group : g.gid = ownCall.NEW_GID

\* no write to /etc/passwd or /etc/group and no chown
NothingChanged ==
    /\ passwd = ownCall.passwd
    /\ group = ownCall.group
    /\ ownCall.chown = << >>
    /\ "Updating UID:GID" \notin {ownCall.out[i] : i \in 1..Len(ownCall.out)}

C17_UidCollisionNoChange ==
    (/\ ownCall.ran
     /\ \/ ~AccountExists
        \/ (OldAccount.uid # ownCall.NEW_UID /\ UidOwnedByOther))
        => NothingChanged

\* C18: when no two accounts share a UID and no two groups share a GID before the
\* procedure, the same holds after it.
C18_UidsAndGidsStayUnique ==
    (/\ ownCall.ran
     /\ UniqueUids(ownCall.passwd)
     /\ UniqueGids(ownCall.group))
        => (UniqueUids(passwd) /\ UniqueGids(group))

----------------------------------------------------------------------------
(* Properties of the log relay, checked under SpecClone *)

Failed(i) == callResults[i].err # "nil"

\* the error the function's own calls amount to: that of the first call that
\* failed, else the exit-code error of git clone, else none
OwnError ==
    IF \E i \in 1..Len(callResults) : Failed(i)
    THEN callResults[CHOOSE i \in 1..Len(callResults) :
                         Failed(i) /\ \A j \in 1..(i - 1) : ~Failed(j)].err
    ELSE IF callResults # << >> /\ callResults[Len(callResults)].exitCode # 0
         THEN "git clone failed with exit code"
         ELSE "nil"

\* C14: a failure of the log relay is never propagated: under every interleaving of
\* the relay goroutine with cloneProjectRepository, the error the function returns
\* is the one its own calls determine and never an error of GetContainerLogs.
C14_RelayErrorNeverReturned ==
    cloneRet.returned =>
        /\ cloneRet.err # "GetContainerLogs"
        /\ cloneRet.err = OwnError

----------------------------------------------------------------------------
(* Properties of the order of the pipeline, checked under SpecBuild *)

\* the four stage functions of Build(), and the runtime calls of a whole Build()
StageOrder == <<"startContainer", "startDocker", "buildDevcontainer", "getRemoteUser">>

FullCalls ==
    <<Call(FromEnv, "ImagePull"), Call(FromEnv, "ContainerCreate"),
      Call(FromEnv, "ContainerStart"),
      Call(FromEnv, "ContainerExecCreate"), Call(FromEnv, "ContainerExecAttach"),
      Call(FromEnv, "ContainerExecCreate"), Call(FromEnv, "ContainerExecAttach"),
      Call(FromEnv, "ContainerExecInspect"), Call(getBuilderDockerClient, "ImageTag"),
      Call(getBuilderDockerClient, "ImageInspectWithRaw")>>

StageOrderSet == {StageOrder[i] : i \in 1..Len(StageOrder)}

\* the calls of Build(), without those of CleanUp() and Publish()
IsPipelineCall(c) == c.op \notin {"ContainerRemove", "ImagePush"}
PipelineCalls == SelectSeq(dockerCalls, IsPipelineCall)

\* how many of the calls of FullCalls are made once the i-th stage has returned
\* without error
CallsThrough(i) == IF i = 0 THEN 0 ELSE IF i = 1 THEN 3 ELSE IF i = 2 THEN 5
                   ELSE IF i = 3 THEN 9 ELSE 10

----------------------------------------------------------------------------
(* No compensating rollback *)

PublishStep == publishRet' # publishRet

\* the operations of the calls a step adds to dockerCalls
NewOps == {dockerCalls'[i].op : i \in (Len(dockerCalls) + 1)..Len(dockerCalls')}

\* ContainerCreate of startContainer has returned without error
ContainerMade == /\ StageRan("startContainer")
                 /\ StageErr("startContainer") \in {"nil", "ContainerStart"}

\* C21: no stage rolls back.  Every step that is not a CleanUp leaves the working
\* tree as it is, removes no container and issues no ContainerRemove; every step
\* that is not a Publish issues no ImagePush; and once ContainerCreate has
\* succeeded, the container and the working tree are there for as long as CleanUp
\* has not been called, whatever stage Build fails at.
C21_NoCompensatingRollback ==
    [][/\ ~CleanUpStep =>
             /\ workTree' = workTree
             /\ container # "absent" => container' # "absent"
             /\ "ContainerRemove" \notin NewOps
       /\ ~PublishStep => "ImagePush" \notin NewOps
       /\ cleanUpRet' = NotCalled =>
             /\ \A i \in 1..Len(dockerCalls') : dockerCalls'[i].op # "ContainerRemove"
             /\ workTree'.present
             /\ ContainerMade' => container' \in {"created", "running"}
       /\ publishRet' = NoPublish =>
             \A i \in 1..Len(dockerCalls') : dockerCalls'[i].op # "ImagePush"]_vars

C21_Witness ==
    /\ BuildFailed
    /\ ContainerMade
    /\ StageErr("startContainer") = "ContainerStart"
    /\ container = "created"
    /\ workTree.present
    /\ cleanUpRet = NotCalled

----------------------------------------------------------------------------
(* The build tool has finished before the pipeline goes on *)

Issued(op) == \E i \in 1..Len(dockerCalls) : dockerCalls[i].op = op

\* buildDevcontainer has read execInspect.ExitCode
ExitCodeConsulted ==
    /\ StageRan("buildDevcontainer")
    /\ Issued("ContainerExecInspect")
    /\ StageErr("buildDevcontainer") # "ContainerExecInspect"

\* C22: the pipeline does not go past the build tool before the build tool has
\* finished: the exit code buildDevcontainer consults is that of a process that
\* has exited, and ImageTag is issued, and the next stage entered, only after the
\* process has exited, also when the attached stream ends before the process does.
C22_BuildToolHasExited ==
    /\ ExitCodeConsulted => ~toolExec.Running
    /\ Issued("ImageTag") => ~toolExec.Running
    /\ StageOk("buildDevcontainer") => ~toolExec.Running

----------------------------------------------------------------------------
(* Outcome parsing *)

\* the attached stream was opened, so the scanner loop has run
StreamScanned ==
    /\ StageRan("buildDevcontainer")
    /\ StageErr("buildDevcontainer") \notin {"NewClient", "ContainerExecCreate",
                                             "ContainerExecAttach"}

Braces(line, tok) == {j \in 1..Len(line) : line[j] = tok}
Least(js) == CHOOSE j \in js : \A k \in js : j <= k
Greatest(js) == CHOOSE j \in js : \A k \in js : j >= k

\* the positions of the line from its first { to its last }; the whole line when
\* there is no such stretch
Stretch(line) ==
    LET opens == Braces(line, LBrace)
        closes == Braces(line, RBrace)
    IN  IF opens # {} /\ closes # {} /\ Least(opens) < Greatest(closes)
        THEN Least(opens)..Greatest(closes)
        ELSE 1..Len(line)

\* the stretch is one JSON object with members of a BuildOutcome
Decodes(line) ==
    LET js == Stretch(line)
    IN  /\ line[Least(js)] = LBrace
        /\ line[Greatest(js)] = RBrace
        /\ Least(js) < Greatest(js)
        /\ \A j \in js \ {Least(js), Greatest(js)} :
              line[j] \in {OutcomeSuccess, OutcomeError, ImageNameOne, ImageNameNone}

MarkerLines == {i \in 1..Len(toolOutput) : ContainsOutcomeMarker(toolOutput[i])}
UndecodableLines == {i \in MarkerLines : ~Decodes(toolOutput[i])}

\* the marker lines decoded before the first one that does not decode
DecodedLines == {i \in MarkerLines : \A k \in UndecodableLines : i < k}

\* where the decoded lines give a member with one of the tokens, and the last
\* such place
Places(toks) ==
    {p \in UNION {{<<i, j>> : j \in Stretch(toolOutput[i])} : i \in DecodedLines} :
        toolOutput[p[1]][p[2]] \in toks}
LastPlace(ps) ==
    CHOOSE p \in ps : \A q \in ps : q[1] < p[1] \/ (q[1] = p[1] /\ q[2] <= p[2])
TokenAt(p) == toolOutput[p[1]][p[2]]

ExpectedOutcome ==
    LET os == Places({OutcomeSuccess, OutcomeError})
    IN  IF os = {} THEN ""
        ELSE IF TokenAt(LastPlace(os)) = OutcomeSuccess THEN "success" ELSE "error"
ExpectedImageName ==
    LET is == Places({ImageNameOne, ImageNameNone})
    IN  IF is = {} THEN << >>
        ELSE IF TokenAt(LastPlace(is)) = ImageNameOne THEN <<ToolImage>> ELSE << >>

\* C23: on every line of the build tool's output that contains {"outcome", the
\* text from the first { to the last } is decoded into the outcome record, so the
\* line  text {"outcome":"success","imageName":["img:tag"]} text  gives
\* imageName[0] = "img:tag"; a line with the marker that does not decode ends
\* buildDevcontainer at once with the decode error; lines without the marker
\* never change the recorded outcome.
C23_OutcomeParsing ==
    StreamScanned =>
        /\ buildOutcome = [Outcome |-> ExpectedOutcome, ImageName |-> ExpectedImageName]
        /\ MarkerLines = {} => buildOutcome = NoOutcome
        /\ toolOutput = <<<<Text, LBrace, OutcomeSuccess, ImageNameOne, RBrace, Text>>>>
              => (buildOutcome.Outcome = "success" /\ buildOutcome.ImageName[1] = ToolImage)
        /\ UndecodableLines # {} =>
              /\ StageErr("buildDevcontainer") = "Unmarshal"
              /\ BuildFailed /\ buildRet.err = "Unmarshal"
              /\ ~Issued("ContainerExecInspect")
              /\ NothingTagged
        /\ UndecodableLines = {} => StageErr("buildDevcontainer") # "Unmarshal"

C23_Witness ==
    /\ StageOk("buildDevcontainer")
    /\ toolOutput = <<<<Text, LBrace, OutcomeSuccess, ImageNameOne, RBrace, Text>>, <<Text>>>>
    /\ buildOutcome.ImageName = <<ToolImage>>

----------------------------------------------------------------------------
(* The tag of a successful build *)

\* <localContainerRegistryServer>/p-<buildId>:latest
DeterministicTag == <<LocalContainerRegistryServer, "/p-", BuildId, ":", "latest">>

\* C24: a successful build tags imageName[0] of the decoded outcome as
\* <localContainerRegistryServer>/p-<buildId>:latest in the nested daemon;
\* buildImageName is set only after the tag call has succeeded, and to that tag;
\* the ImageName of every BuildResult Build returns is that tag.
C24_TagOfSuccessfulBuild ==
    /\ buildImageName \in {<< >>, DeterministicTag}
    /\ nestedTags \subseteq {[ref |-> DeterministicTag, image |-> ToolImage]}
    /\ buildImageName # << >> =>
          /\ Issued("ImageTag")
          /\ StageOk("buildDevcontainer")
          /\ [ref |-> DeterministicTag, image |-> buildOutcome.ImageName[1]] \in nestedTags
    /\ StageOk("buildDevcontainer") => buildImageName = DeterministicTag
    /\ (StageRan("buildDevcontainer") /\ ~StageOk("buildDevcontainer")) =>
          (buildImageName = << >> /\ nestedTags = {})
    /\ buildRet.returned =>
          buildRet.ImageName = IF buildRet.err = "nil" THEN DeterministicTag ELSE << >>

C24_Witness ==
    /\ buildRet.returned
    /\ buildRet.err = "nil"
    /\ buildRet.ImageName = <<LocalContainerRegistryServer, "/p-", BuildId, ":", "latest">>
    /\ buildOutcome.ImageName = <<ToolImage>>
    /\ nestedTags # {}

----------------------------------------------------------------------------
(* Which daemon a call goes to *)

ImageOps == {"ImageTag", "ImageInspectWithRaw", "ImagePush"}
LifecycleOps == {"ImagePull", "ContainerCreate", "ContainerStart", "ContainerExecCreate",
                 "ContainerExecAttach", "ContainerExecInspect", "ContainerRemove"}

\* /tmp/<buildId>/docker/docker.sock
PerBuildSocket == <<"/tmp", BuildId, "docker", "docker.sock">>

\* C25: tag, inspect and push of an image go to the nested daemon's socket
\* /tmp/<buildId>/docker/docker.sock and never to the host's; pull, create, start,
\* exec and remove go to the host's socket; and the directory bound into the
\* builder container for the nested daemon's socket is the directory of that
\* per-build socket.
C25_SocketScoping ==
    /\ \A i \in 1..Len(dockerCalls) :
          /\ dockerCalls[i].op \in ImageOps \cup LifecycleOps
          /\ dockerCalls[i].op \in ImageOps =>
                /\ dockerCalls[i].sock = <<"unix://">> \o PerBuildSocket
                /\ dockerCalls[i].sock # FromEnv
          /\ dockerCalls[i].op \in LifecycleOps => dockerCalls[i].sock = FromEnv
    /\ \E b \in Binds :
          /\ b.source \o <<"docker.sock">> = PerBuildSocket
          /\ (<<"unix://">> \o b.target \o <<"docker.sock">>) \in DockerdHosts
          /\ \A i \in 1..Len(dockerCalls) :
                dockerCalls[i].op \in ImageOps =>
                    dockerCalls[i].sock = <<"unix://">> \o b.source \o <<"docker.sock">>

C25_Witness ==
    /\ Issued("ImageTag")
    /\ Issued("ImageInspectWithRaw")
    /\ Issued("ImagePush")
    /\ Issued("ContainerRemove")
    /\ publishRet.pushed # << >>

----------------------------------------------------------------------------
(* The order of Create on a cache miss *)

CreateOrder == <<"GenerateRandomID", "GetConfigHash", "RemoveAll", "CloneRepository",
                 "detectDevcontainerConfigFilePath", "GetAvailableEphemeralPort">>
Rank(step) == CHOOSE i \in 1..Len(CreateOrder) : CreateOrder[i] = step
Stepped(call, step) == \E i \in 1..Len(call.steps) : call.steps[i] = step

CreateStep == factCall'.op = "Create" /\ nextId' # nextId

\* C26: Create first removes the working directory <basePath>/<hash>/project, then
\* clones into it, and runs detection only after the clone has succeeded; when the
\* purge or the clone fails Create returns that error, makes no builder and
\* detects nothing.
C26_PurgeCloneDetect ==
    [][CreateStep =>
        LET call == factCall'
        IN  /\ \A i \in 1..Len(call.steps) :
                  /\ call.steps[i] \in {CreateOrder[k] : k \in 1..Len(CreateOrder)}
                  /\ \A j \in 1..(i - 1) : Rank(call.steps[j]) < Rank(call.steps[i])
            /\ Stepped(call, "CloneRepository") =>
                  (Stepped(call, "RemoveAll") /\ call.err # "RemoveAll")
            /\ Stepped(call, "detectDevcontainerConfigFilePath") =>
                  /\ Stepped(call, "CloneRepository")
                  /\ call.err # "CloneRepository"
                  /\ workTree' = [repoFiles EXCEPT !.present = TRUE]
            /\ call.err \in {"RemoveAll", "CloneRepository"} =>
                  /\ call.steps[Len(call.steps)] = call.err
                  /\ call.builderId = NoBuilder
                  /\ builders' = builders
                  /\ call.detected = "-"
                  /\ ~Stepped(call, "detectDevcontainerConfigFilePath")
            /\ call.err = "RemoveAll" => workTree' = workTree
            \* the clone starts from a purged directory: what a failed clone
            \* leaves holds nothing of the tree that was there before
            /\ call.err = "CloneRepository" =>
                  workTree' \in {NoTree, [NoTree EXCEPT !.present = TRUE]}]_vars

C26_Witness ==
    /\ factCall.op = "Create"
    /\ factCall.err = "CloneRepository"
    /\ factCall.steps = <<"GenerateRandomID", "GetConfigHash", "RemoveAll", "CloneRepository">>
    /\ builders = {}
    /\ workTree = NoTree

----------------------------------------------------------------------------
(* What a builder instance owns *)

\* the container a builder creates is named by its build ID
ContainerName(b) == b.id

\* C27: every builder instance has a build ID, a working directory and a container
\* name of its own, so that no builder's Create or CleanUp, which purge and delete
\* the instance's working directory, touches the working tree of another builder,
\* two builders made for the same config hash included.
C27_BuildersOwnDistinctTrees ==
    \A b1, b2 \in builders :
        b1 # b2 =>
            /\ b1.id # b2.id
            /\ ContainerName(b1) # ContainerName(b2)
            /\ b1.projectVolumePath # b2.projectVolumePath

----------------------------------------------------------------------------
(* No deduplication of builds for one hash *)

CheckStep == factCall'.op = "CheckExistingBuild" /\ factCall' # factCall

BuildersOf(hash) == {b \in builders : b.hash = hash}

\* C28: builds for the same config hash are not deduplicated.  The factory never
\* writes a build record; while no record is persisted every CheckExistingBuild is
\* a cache miss for every caller, whatever builders exist for the hash; and a
\* Create that finds a devcontainer file yields one more builder, whatever
\* builders exist for the hash.  Two callers can therefore both miss and both
\* obtain a builder for one hash.
C28_NoDeduplication ==
    [][/\ buildRecord' = buildRecord
       /\ (CheckStep /\ buildRecord.kind = "absent" /\ factCall'.err # "GetConfigHash") =>
             /\ ~factCall'.found
             /\ factCall'.err = "nil"
             /\ \E c \in Callers : missed' = missed \cup {c}
             /\ builders' = builders
       /\ CreateStep =>
             /\ factCall'.builderId # NoBuilder
                   <=> (factCall'.err = "nil" /\ factCall'.detected \notin {"-", ""})
             /\ factCall'.builderId # NoBuilder =>
                   Cardinality(BuildersOf(ConfigHash)') = Cardinality(BuildersOf(ConfigHash)) + 1
             /\ missed' = missed]_vars

C28_Witness ==
    /\ buildRecord.kind = "absent"
    /\ missed = Callers
    /\ Cardinality(BuildersOf(ConfigHash)) = 2
    /\ factCall.op = "Create"
    /\ factCall.builderId = 2

----------------------------------------------------------------------------
(* When a relay stops *)

\* C29: a relay retries its read after a read error and stops only when its
\* stream has closed cleanly or its build has been torn down: the goroutine of
\* startDocker has not ended on a failed read, and it has not ended before
\* startDocker returned without an error.
C29_RelayStopsOnlyOnCleanClose ==
    /\ dockerdRelay \in {"closed", "failed"} =>
          (dockerdRelay = "closed" \/ cleanUpRet # NotCalled)
    /\ dockerdRelay # "none" => StageOk("startDocker")

----------------------------------------------------------------------------
(* The rendered command against the native clone *)

\* a step that is a call of CloneRepositoryCmd
CmdStep == gitCall'.op = "CloneRepositoryCmd" /\ gitCall' # gitCall

\* the words that follow --branch, and the words that follow git checkout
BranchArgs(cmd) ==
    {cmd[i + 1] : i \in {k \in 1..(Len(cmd) - 1) : cmd[k] = S("--branch")}}
CheckoutArgs(cmd) ==
    {cmd[i + 2] : i \in {k \in 1..(Len(cmd) - 2) :
                            cmd[k] = S("git") /\ cmd[k + 1] = S("checkout")}}

\* the pinned commit is spelled as a commit hash
IsCommitHash(sha) == sha # << >> /\ \A i \in 1..Len(sha) : sha[i] \in HexTokens

----------------------------------------------------------------------------
(* The in-container clone command against the native acquisition *)

\* C31: the clone command cloneProjectRepository executes targets the reference
\* CloneRepository and CloneRepositoryCmd target for the same project: it names
\* the project's branch with --branch when the native acquisition clones that
\* branch, and it checks out the pinned commit when the native acquisition does
\* (the alias case).
C31_ContainerCloneTargetsSameReference ==
    gitCall.op = "cloneProjectRepository" =>
        LET cmd == gitCall.cmd
            native == CloneRepositoryCmd(project, auth)
        IN  /\ shouldCloneBranch(project) => HasArg(cmd, S("--branch"), project.Branch.val)
            /\ shouldCheckoutSha(project) => project.Sha \in CheckoutArgs(cmd)
            /\ BranchArgs(cmd) = BranchArgs(native)
            /\ CheckoutArgs(cmd) = CheckoutArgs(native)

----------------------------------------------------------------------------
(* The clone container is removed on every return *)

\* ContainerCreate returned a container
ContainerCreated ==
    callResults # << >> /\ callResults[1] = CallResult("ContainerCreate", "nil", 0)

\* the removals of the clone container asked of the runtime so far
Removals ==
    {i \in 1..Len(dockerCalls) : dockerCalls[i] = Call(apiClient, "ContainerRemove")}

\* the call after which cloneProjectRepository returned
ExitPath == callResults[Len(callResults)].call

\* C32: once the clone container has been created, cloneProjectRepository does not
\* return without asking for its removal, whichever return it takes: after a
\* failed start, a failed user lookup, a failed UID/GID query, a failed ownership
\* script, a failed clone, a non-zero exit code of the clone, and on success.  The
\* removal is asked for once, and not before the function returns.
C32_RemovalOnEveryExit ==
    /\ cloneRet.returned /\ ContainerCreated => Cardinality(Removals) = 1
    /\ ~cloneRet.returned => Removals = {}

C32_Witness ==
    /\ cloneRet.returned
    /\ ContainerCreated
    /\ ExitPath = "ExecSync(clone)"
    /\ callResults[Len(callResults)].exitCode # 0
    /\ cloneRet.err = "git clone failed with exit code"
    /\ Cardinality(Removals) = 1

----------------------------------------------------------------------------
(* The ownership procedure and the clone *)

\* the positions of a call in callResults
CallsOf(call) == {i \in 1..Len(callResults) : callResults[i].call = call}

\* the identity the repository is cloned for is not root:root
NotRootIdentity == ~(cloneUser.newUid = 0 /\ cloneUser.newGid = 0)

\* the ownership script comes before git clone, as root and with the environment
\* REMOTE_USER=daytona, NEW_UID, NEW_GID; git clone then runs as daytona; for
\* root:root there is no script and git clone runs as root
ScriptPrecedesClone ==
    \A i \in CallsOf("ExecSync(clone)") :
        IF NotRootIdentity
        THEN /\ callResults[i].user = "daytona"
             /\ \E j \in CallsOf("ExecSync(script)") :
                    j < i /\ callResults[j].user = "root"
             /\ ownCall.ran => /\ ownCall.REMOTE_USER = "daytona"
                               /\ ownCall.NEW_UID = cloneUser.newUid
                               /\ ownCall.NEW_GID = cloneUser.newGid
        ELSE /\ callResults[i].user = "root"
             /\ CallsOf("ExecSync(script)") = {}
             /\ ~ownCall.ran

\* git clone is not executed after an ExecSync of the script that returned an error
NoCloneAfterFailedScript ==
    (\E j \in CallsOf("ExecSync(script)") : callResults[j].err # "nil")
        => CallsOf("ExecSync(clone)") = {}

\* an exit code of git clone other than 0 is an error of cloneProjectRepository
NonZeroExitIsError ==
    cloneRet.returned =>
        \A i \in CallsOf("ExecSync(clone)") :
            callResults[i].exitCode # 0 => cloneRet.err # "nil"

\* C33: in cloneProjectRepository the ownership procedure precedes the clone: for
\* an identity other than UID 0 and GID 0 the script is executed as root with
\* REMOTE_USER=daytona, NEW_UID and NEW_GID before git clone, which then runs as
\* daytona, and git clone is never executed when the ExecSync of the script
\* returned an error; for UID 0 and GID 0 the script is skipped and git clone runs
\* as root; a git clone exit code other than 0 makes the function return an error.
C33_OwnershipPrecedesClone ==
    /\ ScriptPrecedesClone
    /\ NoCloneAfterFailedScript
    /\ NonZeroExitIsError

----------------------------------------------------------------------------
(* Tool output and label data never fault the pipeline *)

\* the stage ended with a return: of nil, or of an error value that Build() hands on
StageReturned(stage) ==
    /\ StageErr(stage) # "panic"
    /\ StageErr(stage) # "nil" => buildRet.returned /\ buildRet.err = StageErr(stage)

\* C34: buildDevcontainer and getRemoteUser never fault on tool or label data:
\* whatever the output stream, the exit code and the devcontainer.metadata label
\* are, each of the two ends by returning success or an error value.  An outcome
\* "success" with an empty or missing imageName and exit code 0 is a returned
\* error, and so is a metadata array with an element that is no object or with a
\* remoteUser that is no string.
C34_NoFaultOnToolOrLabelData ==
    /\ bpc # "panicked"
    /\ \A stage \in {"buildDevcontainer", "getRemoteUser"} :
          StageRan(stage) => StageReturned(stage)

----------------------------------------------------------------------------
(* The relay and the life of its container, checked under SpecCloneLive *)

\* the relay goroutine is not running: it was never started, or it has left its loop
RelayEnded == rpc \in {"none", "done"}

\* C35: no relay outlives its container: once cloneProjectRepository has returned
\* and its clone container has been removed, the log-relay loop eventually
\* terminates instead of calling GetContainerLogs against the removed container
\* for ever.
C35_RelayEndsAfterRemoval ==
    (cloneRet.returned /\ cloneContainer = "removed") ~> RelayEnded

====
